---- MODULE Spec2Model ----
(***************************************************************************)
(* A model of the business-card OCR pipeline of mycrm (js/ocr.js): the     *)
(* recognition orchestrator extractCardData with its shared Tesseract      *)
(* worker, the field extractors and the pure helpers they rest on.         *)
(*                                                                         *)
(* Text is modelled as a sequence of characters, each character a string   *)
(* of length one ("a", "@", " "); a character outside ASCII is written by  *)
(* name ("bullet" for U+2022, "l_stroke" for U+0142, "apos" for U+0027).   *)
(***************************************************************************)
EXTENDS Integers, Sequences, FiniteSets, TLC

VARIABLES
    state,               \* the module's state object: worker, workerPromise, loadedLanguages
    tesseract,           \* the engine: workers created, active parameters, languages, jobs
    recognitionContext,  \* the module-level recognitionContext (null or the current sink)
    run,                 \* per extractCardData call: its position and its locals
    input,               \* argument of the pure function under study
    output               \* results of the pure function under study

vars == <<state, tesseract, recognitionContext, run, input, output>>

\* JavaScript's null, for a language or a label; the other optional values
\* have a null of their own shape.
Null == "null"
NullText == <<"null">>        \* a null where a string may stand
NoConfidence == 0 - 1         \* a word without a confidence
NoBox == [x0 |-> 0 - 1, y0 |-> 0 - 1, x1 |-> 0 - 1, y1 |-> 0 - 1]   \* a null bbox

(***************************************************************************)
(* Characters and character classes of the regular expressions used.       *)
(***************************************************************************)
UpperSeq == <<"A","B","C","D","E","F","G","H","I","J","K","L","M",
              "N","O","P","Q","R","S","T","U","V","W","X","Y","Z">>
LowerSeq == <<"a","b","c","d","e","f","g","h","i","j","k","l","m",
              "n","o","p","q","r","s","t","u","v","w","x","y","z">>
Upper == {UpperSeq[i] : i \in DOMAIN UpperSeq}
Lower == {LowerSeq[i] : i \in DOMAIN LowerSeq}
Digit == {"0","1","2","3","4","5","6","7","8","9"}
Space == {" ", "\n", "\t"}

\* String.prototype.toLowerCase, on one character.
toLowerCase(ch) ==
    IF ch \in Upper
    THEN LowerSeq[CHOOSE i \in DOMAIN UpperSeq : UpperSeq[i] = ch]
    ELSE ch

RECURSIVE MapChars(_, _)
\* s.split('').map(f).join('') for a character map f given as an operator.
MapChars(f(_), s) ==
    IF s = <<>> THEN <<>> ELSE <<f(Head(s))>> \o MapChars(f, Tail(s))

\* s.replace(/[class]/g, '') : drop every character of the class.
DropChars(class, s) == SelectSeq(s, LAMBDA ch : ch \notin class)

(***************************************************************************)
(* normalizeEmailCandidate (js/ocr.js 40-53).                              *)
(***************************************************************************)
\* /[\u2019\u2018`]/ -> apostrophe, /[\u00B7\u2022]/ -> '.', /\uFF20/ -> '@'
PunctuationNormalize(ch) ==
    CASE ch \in {"rsquo", "lsquo", "backtick"} -> "apos"
      [] ch \in {"middot", "bullet"} -> "."
      [] ch = "fullwidth_at" -> "@"
      [] OTHER -> ch

\* const map = { 'O': 'o', 'I': 'l', 'S': 's', 'B': 'b', 'Z': 'z', '0': 'o', '1': 'l', '5': 's' }
ConfusionMap(ch) ==
    CASE ch = "O" -> "o"
      [] ch = "I" -> "l"
      [] ch = "S" -> "s"
      [] ch = "B" -> "b"
      [] ch = "Z" -> "z"
      [] ch = "0" -> "o"
      [] ch = "1" -> "l"
      [] ch = "5" -> "s"
      [] OTHER -> ch

RECURSIVE CollapseDots(_)
\* s.replace(/\.{2,}/g, '.')
CollapseDots(s) ==
    IF Len(s) < 2 THEN s
    ELSE IF s[1] = "." /\ s[2] = "." THEN CollapseDots(Tail(s))
    ELSE <<s[1]>> \o CollapseDots(Tail(s))

\* [A-Za-z0-9._%+@-]
EmailAlphabet == Upper \cup Lower \cup Digit \cup {".", "_", "%", "+", "@", "-"}

normalizeEmailCandidate(str) ==
    IF str = <<>> THEN <<>>
    ELSE LET s1 == DropChars(Space, str)
             s2 == MapChars(PunctuationNormalize, s1)
             s3 == MapChars(ConfusionMap, s2)
             s4 == CollapseDots(s3)
             s5 == SelectSeq(s4, LAMBDA ch : ch \in EmailAlphabet)
         IN  MapChars(toLowerCase, s5)

(***************************************************************************)
(* Confidences.  A word confidence is an integer 0..100 (NoConfidence when *)
(* the engine left it out); a mean is the exact fraction <<total, count>>. *)
(***************************************************************************)
Frac(n) == <<n, 1>>
ConfGt(a, b) == a[1] * b[2] > b[1] * a[2]
ConfGe(a, b) == a[1] * b[2] >= b[1] * a[2]
ConfEq(a, b) == a[1] * b[2] = b[1] * a[2]

RECURSIVE SumConfidence(_)
\* words.reduce((acc, word) => acc + (word.confidence || 0), 0)
SumConfidence(words) ==
    IF words = <<>> THEN 0
    ELSE (IF Head(words).confidence = NoConfidence THEN 0 ELSE Head(words).confidence)
         + SumConfidence(Tail(words))

meanConfidence(words) ==
    IF words = <<>> THEN Frac(0) ELSE <<SumConfidence(words), Len(words)>>

\* Math.max(0, Math.min(100, Math.round(value * 100) / 100)), in hundredths.
roundConfidence(value) ==
    LET hundredths == (2 * 100 * value[1] + value[2]) \div (2 * value[2])
    IN  IF hundredths < 0 THEN 0
        ELSE IF hundredths > 10000 THEN 10000 ELSE hundredths

Min2(a, b) == IF a < b THEN a ELSE b
Max2(a, b) == IF a > b THEN a ELSE b

RECURSIVE CoverBoxes(_, _)
CoverBoxes(words, acc) ==
    IF words = <<>> THEN acc
    ELSE LET b == Head(words).bbox
             nxt == IF b = NoBox THEN acc
                    ELSE IF acc = NoBox THEN b
                    ELSE [x0 |-> Min2(acc.x0, b.x0), y0 |-> Min2(acc.y0, b.y0),
                          x1 |-> Max2(acc.x1, b.x1), y1 |-> Max2(acc.y1, b.y1)]
         IN  CoverBoxes(Tail(words), nxt)

\* { x0, y0, x1, y1 } covering the words that carry a bbox, or null.
summarizeWords(words) == CoverBoxes(words, NoBox)

NoField == [value |-> NullText, confidence |-> Frac(0), words |-> <<>>, bbox |-> NoBox]

(***************************************************************************)
(* String helpers: trim, join, substring, regular-expression matches.      *)
(***************************************************************************)
RECURSIVE TrimLeft(_)
TrimLeft(s) == IF s # <<>> /\ Head(s) \in Space THEN TrimLeft(Tail(s)) ELSE s

RECURSIVE TrimRight(_)
TrimRight(s) ==
    IF s # <<>> /\ s[Len(s)] \in Space THEN TrimRight(SubSeq(s, 1, Len(s) - 1)) ELSE s

trim(s) == TrimRight(TrimLeft(s))

RECURSIVE JoinTexts(_, _)
\* words.map(w => w.text.trim()).join(sep)
JoinTexts(words, sep) ==
    IF words = <<>> THEN <<>>
    ELSE IF Len(words) = 1 THEN trim(words[1].text)
    ELSE trim(words[1].text) \o sep \o JoinTexts(Tail(words), sep)

RECURSIVE SplitSpace(_, _)
\* text.trim().split(/\s+/).filter(Boolean): cur is the token being read.
SplitSpace(s, cur) ==
    IF s = <<>> THEN (IF cur = <<>> THEN <<>> ELSE <<cur>>)
    ELSE IF Head(s) \in Space
         THEN (IF cur = <<>> THEN <<>> ELSE <<cur>>) \o SplitSpace(Tail(s), <<>>)
         ELSE SplitSpace(Tail(s), Append(cur, Head(s)))

Tokens(text) == SplitSpace(text, <<>>)

Includes(s, ch) == \E i \in DOMAIN s : s[i] = ch

\* The last index of the maximal run of class characters that starts at i
\* (i - 1 when s[i] is not of the class).
RunEnd(s, i, class) ==
    LET stops == {j \in i..Len(s) : s[j] \notin class}
    IN  IF stops = {} THEN Len(s)
        ELSE (CHOOSE j \in stops : \A k \in stops : j <= k) - 1

\* EMAIL_REGEX = /[A-Z0-9._%+-]+@[A-Z0-9.-]+\.[A-Z]{2,}/i
EmailLocal == Upper \cup Lower \cup Digit \cup {".", "_", "%", "+", "-"}
EmailDomain == Upper \cup Lower \cup Digit \cup {".", "-"}
EmailTld == Upper \cup Lower

\* The dots at which the domain part may end when the match starts at i:
\* the local part is the maximal run from i, followed by '@'; the domain is
\* greedy, so the last dot with two letters after it is taken.
EmailDotsAt(s, i) ==
    LET at == RunEnd(s, i, EmailLocal) + 1
        dEnd == RunEnd(s, at + 1, EmailDomain)
    IN  IF at = i \/ at > Len(s) \/ s[at] # "@" THEN {}
        ELSE {j \in (at + 2)..(dEnd - 2) :
                 s[j] = "." /\ s[j + 1] \in EmailTld /\ s[j + 2] \in EmailTld}

\* str.match(EMAIL_REGEX): match[0] of the leftmost match, or NullText.
EMAIL_REGEX_match(s) ==
    LET starts == {i \in DOMAIN s : EmailDotsAt(s, i) # {}}
    IN  IF starts = {} THEN NullText
        ELSE LET i == CHOOSE a \in starts : \A b \in starts : a <= b
                 dots == EmailDotsAt(s, i)
                 j == CHOOSE a \in dots : \A b \in dots : a >= b
             IN  SubSeq(s, i, RunEnd(s, j + 1, EmailTld))

\* PHONE_REGEX = /(\+\d{1,3}\s*)?[\d() -]{7,}/ : the prefix group is optional,
\* so test() succeeds exactly when seven characters of the class are adjacent.
PhoneClass == Digit \cup {"(", ")", " ", "-"}
PHONE_REGEX_test(s) ==
    \E i \in DOMAIN s : RunEnd(s, i, PhoneClass) >= i + 6

(***************************************************************************)
(* Field extractors (js/ocr.js 1037-1087, 1327-1441).                      *)
(***************************************************************************)
\* First index of a word whose text contains '@', or 0 (findIndex's -1).
AtWordIndex(words) ==
    LET hits == {i \in DOMAIN words : Includes(words[i].text, "@")}
    IN  IF hits = {} THEN 0 ELSE CHOOSE i \in hits : \A k \in hits : i <= k

\* Words whose vertical centre lies in the band of the @-word, +-2 px.
GatedWords(words, atWord) ==
    LET yMin == atWord.bbox.y0 - 2
        yMax == atWord.bbox.y1 + 2
    IN  SelectSeq(words, LAMBDA w :
            /\ w.bbox # NoBox
            /\ w.bbox.y0 + w.bbox.y1 >= 2 * yMin
            /\ w.bbox.y0 + w.bbox.y1 <= 2 * yMax)

\* One iteration of the loop of extractEmailFromLines: best after the line.
EmailLineStep(best, line) ==
    IF line.words = <<>> THEN best
    ELSE LET k == AtWordIndex(line.words)
         IN  IF k = 0 THEN best
             ELSE IF line.words[k].bbox = NoBox THEN best
             ELSE LET gatedWords == GatedWords(line.words, line.words[k])
                      combined == JoinTexts(gatedWords, <<>>)
                      norm == normalizeEmailCandidate(combined)
                      candidate == EMAIL_REGEX_match(norm)
                      confidence == meanConfidence(gatedWords)
                  IN  IF gatedWords = <<>> THEN best
                      ELSE IF candidate = NullText THEN best
                      ELSE IF ConfGt(confidence, best.confidence)
                           THEN [value |-> candidate, confidence |-> confidence,
                                 words |-> gatedWords, bbox |-> summarizeWords(gatedWords)]
                           ELSE best

RECURSIVE EmailLinesFrom(_, _)
EmailLinesFrom(lines, best) ==
    IF lines = <<>> THEN best
    ELSE EmailLinesFrom(Tail(lines), EmailLineStep(best, Head(lines)))

extractEmailFromLines(lines) == EmailLinesFrom(lines, NoField)

\* Letters beyond ASCII that the model's texts use (\p{L}), and those of
\* them that the first-character class of uppercaseToken holds.
LowerDiacritic == {"l_stroke", "o_acute", "sharp_s", "u_umlaut", "e_acute", "c_cedilla", "n_tilde"}
UpperDiacritic == {"L_stroke", "O_acute", "U_umlaut", "E_acute"}
Letter == Upper \cup Lower \cup LowerDiacritic \cup UpperDiacritic

\* uppercaseToken = /^[A-Z\u00C0-\u00DD...][\p{L}'\u2019.-]*$/u
uppercaseToken(token) ==
    /\ token # <<>>
    /\ token[1] \in Upper \cup UpperDiacritic
    /\ \A i \in 2..Len(token) : token[i] \in Letter \cup {"apos", "rsquo", ".", "-"}

JoinTokens(tokens) ==
    JoinTexts([i \in DOMAIN tokens |-> [text |-> tokens[i]]], <<" ">>)

\* One iteration of the loop of extractName.
NameLineStep(best, line) ==
    LET tokens == Tokens(line.text)
        confidence == meanConfidence(line.words)
    IN  IF line.text = <<>> THEN best
        ELSE IF Len(tokens) < 2 THEN best
        ELSE IF \E i \in DOMAIN line.text : line.text[i] \in Digit \cup {"@", "(", ")", "+"}
             THEN best
        ELSE IF ~(uppercaseToken(tokens[1]) /\ uppercaseToken(tokens[2])) THEN best
        ELSE IF ConfGt(confidence, best.confidence)
             THEN [value |-> trim(JoinTokens(tokens)), confidence |-> confidence,
                   words |-> line.words, bbox |-> summarizeWords(line.words)]
             ELSE best

RECURSIVE NameLinesFrom(_, _)
NameLinesFrom(lines, best) ==
    IF lines = <<>> THEN best
    ELSE NameLinesFrom(Tail(lines), NameLineStep(best, Head(lines)))

extractName(lines) == NameLinesFrom(lines, NoField)

\* The body of the inner loop of extractEmail, for the segment words[i..i+len-1].
EmailSegmentStep(best, segment) ==
    LET combined == JoinTexts(segment, <<>>)
        match == EMAIL_REGEX_match(combined)
        confidence == meanConfidence(segment)
    IN  IF match = NullText THEN best
        ELSE IF ConfGt(confidence, best.confidence)
             THEN [value |-> MapChars(toLowerCase, match), confidence |-> confidence,
                   words |-> segment, bbox |-> summarizeWords(segment)]
             ELSE best

RECURSIVE SegmentsFrom(_, _, _, _, _, _)
\* for (i ...) for (len = 1; len <= maxLen && i + len <= words.length; len++) step(...)
SegmentsFrom(step(_, _), words, maxLen, i, len, best) ==
    IF i > Len(words) THEN best
    ELSE IF len > maxLen \/ i + len - 1 > Len(words)
         THEN SegmentsFrom(step, words, maxLen, i + 1, 1, best)
         ELSE SegmentsFrom(step, words, maxLen, i, len + 1,
                           step(best, SubSeq(words, i, i + len - 1)))

extractEmail(words) ==
    LET best == SegmentsFrom(EmailSegmentStep, words, 3, 1, 1, NoField)
    IN  IF best.value = NullText \/ best.value = <<>> THEN best
        ELSE LET finalMatch == EMAIL_REGEX_match(best.value)
             IN  [best EXCEPT !.value = IF finalMatch = NullText THEN NullText
                                        ELSE MapChars(toLowerCase, finalMatch)]

\* A variant that keeps every character after the leading '+'.
DigitsAfterPlusKeepAll(s) == s

\* for (i = 1 ...) if (/\d/.test(ch)) parts.push(ch)
DigitsAfterPlus(s) == SelectSeq(s, LAMBDA ch : ch \in Digit)

normalizePhoneValue(value) ==
    IF value = NullText \/ value = <<>> THEN NullText
    ELSE LET digits == SelectSeq(value, LAMBDA ch : ch \in Digit \cup {"+"})
         IN  IF digits = <<>> THEN NullText
             ELSE IF Head(digits) = "+" THEN <<"+">> \o DigitsAfterPlus(Tail(digits))
             ELSE SelectSeq(digits, LAMBDA ch : ch \in Digit)

\* A variant of the loop body without the check of the formatted value.
PhoneSegmentStepUnchecked(best, segment) ==
    LET combined == JoinTexts(segment, <<" ">>)
        confidence == meanConfidence(segment)
        formatted == normalizePhoneValue(trim(combined))
    IN  IF ~PHONE_REGEX_test(combined) THEN best
        ELSE IF ConfGt(confidence, best.confidence)
             THEN [value |-> formatted, confidence |-> confidence,
                   words |-> segment, bbox |-> summarizeWords(segment)]
             ELSE best

\* The body of the inner loop of extractPhone.
PhoneSegmentStep(best, segment) ==
    LET combined == JoinTexts(segment, <<" ">>)
        confidence == meanConfidence(segment)
        formatted == normalizePhoneValue(trim(combined))
    IN  IF ~PHONE_REGEX_test(combined) THEN best
        ELSE IF formatted = NullText \/ formatted = <<>> THEN best
        ELSE IF ConfGt(confidence, best.confidence)
             THEN [value |-> formatted, confidence |-> confidence,
                   words |-> segment, bbox |-> summarizeWords(segment)]
             ELSE best

extractPhone(words) == SegmentsFrom(PhoneSegmentStep, words, 6, 1, 1, NoField)

(***************************************************************************)
(* What the engine may return.  A result is data = {text, lines, words};   *)
(* the engine is opaque, so each recognition draws its result from the set *)
(* the session's stub offers for that pass.                                *)
(***************************************************************************)
Box(x0, y0, x1, y1) == [x0 |-> x0, y0 |-> y0, x1 |-> x1, y1 |-> y1]
Word(text, confidence, bbox) == [text |-> text, confidence |-> confidence, bbox |-> bbox]

RECURSIVE JoinLines(_)
JoinLines(lines) ==
    IF lines = <<>> THEN <<>>
    ELSE IF Len(lines) = 1 THEN lines[1].text
    ELSE lines[1].text \o <<"\n">> \o JoinLines(Tail(lines))

RECURSIVE WordsOf(_)
WordsOf(lines) == IF lines = <<>> THEN <<>> ELSE Head(lines).words \o WordsOf(Tail(lines))

Page(lines) == [text |-> JoinLines(lines), lines |-> lines, words |-> WordsOf(lines)]

TxtAl == <<"A", "l">>
TxtPo == <<"P", "o">>
TxtEmail == <<"a", "@", "b", ".", "c", "o">>
TxtEmailX == <<"x", "@", "b", ".", "c", "o">>
TxtPhoneA == <<"5", "5", "5">>
TxtPhoneB == <<"1", "2", "3", "4">>

NameLine(c, boxed) ==
    [text |-> TxtAl \o <<" ">> \o TxtPo,
     words |-> <<Word(TxtAl, c, IF boxed THEN Box(10, 10, 30, 20) ELSE NoBox),
                 Word(TxtPo, c, IF boxed THEN Box(40, 10, 60, 20) ELSE NoBox)>>]
EmailLine(txt, c) == [text |-> txt, words |-> <<Word(txt, c, Box(10, 30, 70, 40))>>]
PhoneLine(c) ==
    [text |-> TxtPhoneA \o <<" ">> \o TxtPhoneB,
     words |-> <<Word(TxtPhoneA, c, Box(10, 50, 30, 60)),
                 Word(TxtPhoneB, c, Box(40, 50, 70, 60))>>]
\* A line whose text holds one character beyond ASCII.
GlyphLine(ch, c) ==
    [text |-> TxtAl \o <<" ">> \o TxtPo \o <<ch>>,
     words |-> <<Word(TxtAl, c, Box(10, 10, 30, 20)),
                 Word(TxtPo \o <<ch>>, c, Box(40, 10, 70, 20))>>]

\* Seven dashes have the shape of a phone number and hold no digit.
DashPage ==
    Page(<<[text |-> <<"-", "-", "-", "-", "-", "-", "-">>,
            words |-> <<Word(<<"-", "-", "-", "-", "-", "-", "-">>, 60, Box(10, 50, 70, 60))>>]>>)
EmptyPage == Page(<<>>)
CardPage == Page(<<NameLine(92, TRUE), EmailLine(TxtEmail, 45)>>)
FaintPage == Page(<<NameLine(60, TRUE)>>)
UnboxedPage == Page(<<NameLine(60, FALSE)>>)
PolishPage == Page(<<GlyphLine("l_stroke", 60)>>)
AccentPage == Page(<<GlyphLine("o_acute", 80)>>)

\* Log messages of the worker, after formatLog.
LogSmall == "Image too small to scale!!"
LogLine == "Warning: line cannot be recognized!!"
LogProgress == "recognizing text 50.0%"

\* REQUIRED_WARNINGS.some((regex) => regex.test(log)): both patterns are
\* case-insensitive substring matches.
REQUIRED_WARNINGS(log) == log \in {LogSmall, LogLine}

FullStub ==
    [general |-> {EmptyPage, CardPage, FaintPage, UnboxedPage, PolishPage, AccentPage},
     email   |-> {EmptyPage, Page(<<EmailLine(TxtEmail, 70)>>)},
     phone   |-> {EmptyPage, Page(<<PhoneLine(60)>>), DashPage},
     refine  |-> {EmptyPage, Page(<<EmailLine(TxtEmail, 80)>>),
                  Page(<<EmailLine(TxtEmailX, 45)>>), Page(<<PhoneLine(80)>>)},
     logs    |-> {LogSmall, LogProgress},
     missing |-> {},
     offline |-> TRUE]

(***************************************************************************)
(* The session: state, the Tesseract worker and the extractCardData calls. *)
(***************************************************************************)
MaxCalls == 2       \* extractCardData calls of one session
MaxLogs == 3        \* log messages the worker emits in one session

Requests == 1..2    \* the slots of the calls that may be in flight together

DEFAULT_TARGET_WIDTH == 2400

\* const attemptSettings = [...]
attemptSettings ==
    <<[targetWidth |-> DEFAULT_TARGET_WIDTH, psm |-> 6],
      [targetWidth |-> Max2(2200, DEFAULT_TARGET_WIDTH + 200), psm |-> 6],
      [targetWidth |-> Max2(2600, DEFAULT_TARGET_WIDTH + 400), psm |-> 4]>>

\* EXTRA_LANGUAGE_MAP, in its order; each pattern restricted to the
\* characters beyond ASCII that the model's texts use.
EXTRA_LANGUAGE_MAP ==
    <<[lang |-> "pol", pattern |-> {"l_stroke", "o_acute", "L_stroke", "O_acute"}],
      [lang |-> "deu", pattern |-> {"u_umlaut", "sharp_s", "U_umlaut"}],
      [lang |-> "fra", pattern |-> {"c_cedilla", "e_acute", "u_umlaut", "E_acute", "U_umlaut"}],
      [lang |-> "spa", pattern |-> {"e_acute", "o_acute", "n_tilde", "u_umlaut",
                                    "E_acute", "O_acute", "U_umlaut"}]>>

InSeq(x, seq) == \E i \in DOMAIN seq : seq[i] = x

detectExtraLanguage(text, loadedLanguages) ==
    LET hits == {i \in DOMAIN EXTRA_LANGUAGE_MAP :
                    /\ ~InSeq(EXTRA_LANGUAGE_MAP[i].lang, loadedLanguages)
                    /\ \E k \in DOMAIN text : text[k] \in EXTRA_LANGUAGE_MAP[i].pattern}
    IN  IF text = <<>> \/ hits = {} THEN Null
        ELSE EXTRA_LANGUAGE_MAP[CHOOSE i \in hits : \A k \in hits : i <= k].lang

\* The parameters of the passes (setParameters arguments); user_defined_dpi
\* and preserve_interword_spaces are the same in all of them.
GeneralParams(psm) == [psm |-> psm, whitelist |-> "general", blacklist |-> Null]
EmailParams == [psm |-> 11, whitelist |-> "email", blacklist |-> "()[]<>{}"]
PhoneParams == [psm |-> 11, whitelist |-> "phone", blacklist |-> Null]
RefineParams(field) == [psm |-> 7, whitelist |-> field, blacklist |-> Null]

NoResult == [text |-> NullText, lines |-> <<>>, words |-> <<>>]
NoPreprocess == [canvas |-> [width |-> 0, height |-> 0, region |-> Null], steps |-> Null]
NoParams == [psm |-> 0, whitelist |-> Null, blacklist |-> Null]
NoContext == [label |-> Null, logs |-> 0]

\* The locals of a call that has not started; worker 0 and promise 0 are null,
\* returned holds the value the call resolved with, once it has.  Three
\* fields are history, not locals: recognitions counts the recognize calls of
\* the current attempt, extracted keeps the fields as the extractors left
\* them, refinedWith the result of each field's refined recognition.
IdleRun ==
    [pc |-> "idle", promise |-> 0, worker |-> 0, attemptIndex |-> 0,
     logs |-> <<>>, recognitions |-> 0, detectedLanguage |-> Null,
     extraLanguageApplied |-> FALSE, warningsSet |-> <<>>, attemptHistory |-> <<>>,
     finalGeneral |-> NoResult, finalPreprocess |-> NoPreprocess, generalPSMUsed |-> 6,
     emailResult |-> NoResult, nameField |-> NoField, emailField |-> NoField,
     phoneField |-> NoField, refining |-> Null, returned |-> <<>>,
     extracted |-> [name |-> NoField, email |-> NoField, phone |-> NoField],
     refinedWith |-> [name |-> NoResult, email |-> NoResult, phone |-> NoResult]]

InFlight(r) == run[r].pc \notin {"idle", "done", "failed"}

SessionInit(stub) ==
    /\ state = [worker |-> 0, workerPromise |-> 0, loadedLanguages |-> <<"eng">>]
    /\ tesseract = [created |-> 0, pending |-> {}, rejected |-> {}, params |-> NoParams,
                    setBy |-> 0, langs |-> <<>>, jobs |-> {}, calls |-> 0, logged |-> 0,
                    stub |-> stub]
    /\ recognitionContext = NoContext
    /\ run = [r \in Requests |-> IdleRun]

\* preprocessImage(image, adjustments, { targetWidth }): the canvas of an
\* attempt, for a source image twice as wide as it is high.
preprocessImage(targetWidth) ==
    [canvas |-> [width |-> targetWidth, height |-> targetWidth \div 2, region |-> "full"],
     steps |-> "steps"]

\* await worker.setParameters(p) by call r: the worker takes its messages in
\* order, so the parameters are those of the last call posted.
PostSetParameters(t, r, p) == [t EXCEPT !.params = p, !.setBy = r]

\* worker.recognize(canvas) by call r: the job runs with the parameters active
\* when it was posted.
PostRecognize(t, r, w, canvas) ==
    [t EXCEPT !.jobs = @ \cup {[by |-> r, worker |-> w, canvas |-> canvas,
                                params |-> t.params, setBy |-> t.setBy]}]

FinishJob(t, r) == [t EXCEPT !.jobs = {j \in @ : j.by # r}]

\* A variant without the workerPromise guard: a worker is created whenever
\* state.worker is not yet set.
ensureWorkerNoPromise(st, t) ==
    IF st.worker # 0 THEN [state |-> st, tesseract |-> t, promise |-> 0]
    ELSE [state |-> [st EXCEPT !.workerPromise = t.created + 1],
          tesseract |-> [t EXCEPT !.created = @ + 1, !.pending = @ \cup {t.created + 1}],
          promise |-> t.created + 1]

\* ensureWorker (js/ocr.js 175-192), up to its first await: the promise the
\* call waits on, and the worker it asks Tesseract to create when there is none.
ensureWorker(st, t) ==
    IF st.worker # 0 THEN [state |-> st, tesseract |-> t, promise |-> 0]
    ELSE IF st.workerPromise = 0
    THEN [state |-> [st EXCEPT !.workerPromise = t.created + 1],
          tesseract |-> [t EXCEPT !.created = @ + 1, !.pending = @ \cup {t.created + 1}],
          promise |-> t.created + 1]
    ELSE [state |-> st, tesseract |-> t, promise |-> st.workerPromise]

\* extractCardData is called: await ensureWorker().
Call(r) ==
    /\ ~InFlight(r)
    /\ tesseract.calls < MaxCalls
    /\ LET e == ensureWorker(state, tesseract)
       IN  /\ state' = e.state
           /\ tesseract' = [e.tesseract EXCEPT !.calls = @ + 1]
           /\ run' = [run EXCEPT ![r] = [IdleRun EXCEPT !.pc = "ensureWorker",
                                                        !.promise = e.promise]]
    /\ UNCHANGED <<recognitionContext, input, output>>

\* The async body of ensureWorker completes: createWorker, load,
\* loadLanguage('eng'), initialize('eng'), then the two assignments to state.
WorkerReady(w) ==
    /\ w \in tesseract.pending
    /\ tesseract' = [tesseract EXCEPT !.pending = @ \ {w}, !.langs = <<"eng">>]
    /\ state' = [state EXCEPT !.loadedLanguages = <<"eng">>, !.worker = w]
    /\ UNCHANGED <<recognitionContext, run, input, output>>

\* createWorker or the loading of the base language rejects.
WorkerFails(w) ==
    /\ w \in tesseract.pending
    /\ tesseract.stub.offline
    /\ tesseract' = [tesseract EXCEPT !.pending = @ \ {w}, !.rejected = @ \cup {w}]
    /\ UNCHANGED <<state, recognitionContext, run, input, output>>

\* The start of the do-body of an attempt: recognitionContext is set and
\* setParameters is posted (js/ocr.js 1135-1147).
StartGeneral(l, r) ==
    [l EXCEPT !.pc = "general_setParameters", !.logs = <<>>]

GeneralContext(r) == [label |-> "General pass", logs |-> r]
OtherContext(label) == [label |-> label, logs |-> 0]

\* The call resumes after await ensureWorker(): const worker = state.worker,
\* then the first attempt up to its setParameters.
AfterEnsureWorker(r) ==
    /\ run[r].pc = "ensureWorker"
    /\ run[r].promise \notin tesseract.pending
    /\ IF run[r].promise \in tesseract.rejected
       THEN /\ run' = [run EXCEPT ![r].pc = "failed"]
            /\ UNCHANGED <<tesseract, recognitionContext>>
       ELSE /\ run' = [run EXCEPT ![r] = StartGeneral([@ EXCEPT !.worker = state.worker,
                                                               !.attemptIndex = 0,
                                                               !.recognitions = 0], r)]
            /\ recognitionContext' = GeneralContext(r)
            /\ tesseract' = PostSetParameters(tesseract, r, GeneralParams(attemptSettings[1].psm))
    /\ UNCHANGED <<state, input, output>>

\* The region canvas of maybeRefineLowConfidence: the bbox padded by 6 px,
\* clamped to the canvas (js/ocr.js 1460-1468).
RegionOf(canvas, bbox) ==
    LET padding == 6
        sx == Max2(0, bbox.x0 - padding)
        sy == Max2(0, bbox.y0 - padding)
        sWidth == Max2(1, Min2(canvas.width - sx, bbox.x1 - bbox.x0 + padding * 2))
        sHeight == Max2(1, Min2(canvas.height - sy, bbox.y1 - bbox.y0 + padding * 2))
    IN  [width |-> sWidth, height |-> sHeight, region |-> "field"]

FieldOf(l, fieldName) ==
    CASE fieldName = "name" -> l.nameField
      [] fieldName = "email" -> l.emailField
      [] OTHER -> l.phoneField

\* A variant whose targeted passes read the canvas of the first attempt
\* instead of the canonical one.
CanvasOfFirstAttempt(l) ==
    CASE l.pc = "general_setParameters" ->
            preprocessImage(attemptSettings[l.attemptIndex + 1].targetWidth).canvas
      [] l.pc \in {"email_setParameters", "phone_setParameters"} ->
            preprocessImage(attemptSettings[1].targetWidth).canvas
      [] OTHER -> RegionOf(l.finalPreprocess.canvas, FieldOf(l, l.refining).bbox)

\* The canvas a pass recognizes: the attempt's preprocessed canvas, or the
\* region cut out of the canonical canvas for a field.
CanvasOf(l) ==
    CASE l.pc = "general_setParameters" ->
            preprocessImage(attemptSettings[l.attemptIndex + 1].targetWidth).canvas
      [] l.pc \in {"email_setParameters", "phone_setParameters"} -> l.finalPreprocess.canvas
      [] OTHER -> RegionOf(l.finalPreprocess.canvas, FieldOf(l, l.refining).bbox)

RecognizePc(pc) ==
    CASE pc = "general_setParameters" -> "general_recognize"
      [] pc = "email_setParameters" -> "email_recognize"
      [] pc = "phone_setParameters" -> "phone_recognize"
      [] OTHER -> "refine_recognize"

\* await worker.setParameters(...) returns and recognize(canvas) is posted.
\* The general pass uses the local const worker, the other passes state.worker.
AfterSetParameters(r) ==
    /\ run[r].pc \in {"general_setParameters", "email_setParameters",
                      "phone_setParameters", "refine_setParameters"}
    /\ tesseract' = PostRecognize(tesseract, r,
                        IF run[r].pc = "general_setParameters" THEN run[r].worker
                        ELSE state.worker,
                        CanvasOf(run[r]))
    /\ run' = [run EXCEPT ![r].pc = RecognizePc(@),
                          ![r].recognitions = IF run[r].pc = "general_setParameters"
                                              THEN @ + 1 ELSE @]
    /\ UNCHANGED <<state, recognitionContext, input, output>>

\* handleWorkerLog (js/ocr.js 198-210): a message of a running job is pushed
\* to the logs of the current recognitionContext, whichever call set it.
handleWorkerLog(message) ==
    /\ recognitionContext # NoContext
    /\ recognitionContext.logs # 0
    /\ run' = [run EXCEPT ![recognitionContext.logs].logs = Append(@, message)]

\* The worker reports on a job it is running.
WorkerLog ==
    /\ tesseract.jobs # {}
    /\ tesseract.logged < MaxLogs
    /\ \E message \in tesseract.stub.logs : handleWorkerLog(message)
    /\ tesseract' = [tesseract EXCEPT !.logged = @ + 1]
    /\ UNCHANGED <<state, recognitionContext, input, output>>

\* the email pass is set up (js/ocr.js 1215-1228).
StartEmailPass(l) == [l EXCEPT !.pc = "email_setParameters"]

ExtraLanguage(loadedLanguages) == SubSeq(loadedLanguages, 2, Len(loadedLanguages))

\* A variant that numbers the attempts from 0.
HistoryEntryFromZero(l, warnings, success, loadedLanguages) ==
    [attempt |-> l.attemptIndex,
     targetWidth |-> attemptSettings[l.attemptIndex + 1].targetWidth,
     psm |-> attemptSettings[l.attemptIndex + 1].psm,
     warnings |-> warnings, success |-> success,
     extraLanguage |-> ExtraLanguage(loadedLanguages)]

HistoryEntry(l, warnings, success, loadedLanguages) ==
    [attempt |-> l.attemptIndex + 1,
     targetWidth |-> attemptSettings[l.attemptIndex + 1].targetWidth,
     psm |-> attemptSettings[l.attemptIndex + 1].psm,
     warnings |-> warnings, success |-> success,
     extraLanguage |-> ExtraLanguage(loadedLanguages)]

RECURSIVE AddAll(_, _)
\* warningMessages.forEach((warning) => warningsSet.add(warning))
AddAll(set, messages) ==
    IF messages = <<>> THEN set
    ELSE AddAll(IF InSeq(Head(messages), set) THEN set ELSE Append(set, Head(messages)),
                Tail(messages))

\* A variant that asks for the next attempt whether or not a warning was logged.
shouldRetryWithoutWarning(warningMessages, attemptIndex) ==
    attemptIndex < Len(attemptSettings) - 1

\* shouldRetry (js/ocr.js 1165)
shouldRetry(warningMessages, attemptIndex) ==
    warningMessages # <<>> /\ attemptIndex < Len(attemptSettings) - 1

\* After recognize of the general pass (js/ocr.js 1149-1194): a language is
\* detected and loaded, or the warnings are evaluated and the attempt either
\* gives way to the next one or becomes the canonical result.
AfterGeneralRecognize(r) ==
    /\ run[r].pc = "general_recognize"
    /\ \E generalResult \in tesseract.stub.general :
        LET l == run[r]
            detectedLanguage == detectExtraLanguage(generalResult.text, state.loadedLanguages)
            warningMessages == SelectSeq(l.logs, REQUIRED_WARNINGS)
            warned == [l EXCEPT !.warningsSet = AddAll(@, warningMessages)]
        IN  IF detectedLanguage # Null /\ ~InSeq(detectedLanguage, state.loadedLanguages)
            THEN \* await worker.loadLanguage(detectedLanguage)
                 /\ run' = [run EXCEPT ![r].pc = "loadLanguage",
                                       ![r].detectedLanguage = detectedLanguage]
                 /\ recognitionContext' = NoContext
                 /\ tesseract' = FinishJob(tesseract, r)
            ELSE IF shouldRetry(warningMessages, l.attemptIndex)
            THEN /\ run' = [run EXCEPT ![r] = StartGeneral(
                                [warned EXCEPT
                                    !.attemptHistory = Append(@,
                                        HistoryEntry(l, warningMessages, FALSE, state.loadedLanguages)),
                                    !.attemptIndex = @ + 1,
                                    !.recognitions = 0], r)]
                 /\ recognitionContext' = GeneralContext(r)
                 /\ tesseract' = PostSetParameters(FinishJob(tesseract, r), r,
                                    GeneralParams(attemptSettings[l.attemptIndex + 2].psm))
            ELSE /\ run' = [run EXCEPT ![r] = StartEmailPass(
                                [warned EXCEPT
                                    !.finalGeneral = generalResult,
                                    !.finalPreprocess = preprocessImage(
                                        attemptSettings[l.attemptIndex + 1].targetWidth),
                                    !.generalPSMUsed = attemptSettings[l.attemptIndex + 1].psm,
                                    !.attemptHistory = Append(@,
                                        HistoryEntry(l, warningMessages, TRUE, state.loadedLanguages)),
                                    !.extraLanguageApplied = FALSE])]
                 /\ recognitionContext' = OtherContext("Email pass")
                 /\ tesseract' = PostSetParameters(FinishJob(tesseract, r), r, EmailParams)
    /\ UNCHANGED <<state, input, output>>

\* await worker.loadLanguage(lang) returns, or rejects when the language's
\* assets are missing; nothing catches the rejection (js/ocr.js 1153).
AfterLoadLanguage(r) ==
    /\ run[r].pc = "loadLanguage"
    /\ IF run[r].detectedLanguage \in tesseract.stub.missing
       THEN /\ run' = [run EXCEPT ![r].pc = "failed"]
            /\ UNCHANGED tesseract
       ELSE \* await worker.initialize(`eng+${detectedLanguage}`)
            /\ run' = [run EXCEPT ![r].pc = "initialize"]
            /\ tesseract' = [tesseract EXCEPT !.langs = <<"eng", run[r].detectedLanguage>>]
    /\ UNCHANGED <<state, recognitionContext, input, output>>

\* A variant that forgets the language it has just initialized.
RecordLanguageNever(loadedLanguages, lang) == loadedLanguages

\* A variant that records the language twice.
RecordLanguageTwice(loadedLanguages, lang) == Append(Append(loadedLanguages, lang), lang)

\* state.loadedLanguages.push(detectedLanguage) (js/ocr.js 1155)
RecordLanguage(loadedLanguages, lang) == Append(loadedLanguages, lang)

\* await worker.initialize(...) returns: the language is recorded and the
\* same attempt is run again (js/ocr.js 1155-1158, then 1135-1147).
AfterInitialize(r) ==
    /\ run[r].pc = "initialize"
    /\ state' = [state EXCEPT !.loadedLanguages = RecordLanguage(@, run[r].detectedLanguage)]
    /\ run' = [run EXCEPT ![r] = StartGeneral([@ EXCEPT !.extraLanguageApplied = TRUE], r)]
    /\ recognitionContext' = GeneralContext(r)
    /\ tesseract' = PostSetParameters(tesseract, r,
                        GeneralParams(attemptSettings[run[r].attemptIndex + 1].psm))
    /\ UNCHANGED <<input, output>>

\* After recognize of the email pass: the phone pass is set up (1229-1242).
AfterEmailRecognize(r) ==
    /\ run[r].pc = "email_recognize"
    /\ \E emailResult \in tesseract.stub.email :
        run' = [run EXCEPT ![r].pc = "phone_setParameters", ![r].emailResult = emailResult]
    /\ recognitionContext' = OtherContext("Phone pass")
    /\ tesseract' = PostSetParameters(FinishJob(tesseract, r), r, PhoneParams)
    /\ UNCHANGED <<state, input, output>>

(***************************************************************************)
(* Field refinement (js/ocr.js 1454-1495) and the end of extractCardData.  *)
(***************************************************************************)
Truthy(value) == value # NullText /\ value # <<>>

\* A variant whose threshold is exclusive: a field at exactly 70 is refined.
NeedsRefineAtThreshold(field) ==
    /\ field.bbox # NoBox
    /\ ~(ConfGt(field.confidence, Frac(70)) /\ Truthy(field.value))

\* The two early returns of maybeRefineLowConfidence: no engine call is made.
NeedsRefine(field) ==
    /\ field.bbox # NoBox
    /\ ~(ConfGe(field.confidence, Frac(70)) /\ Truthy(field.value))

\* postExtract and postProcess as extractCardData passes them for each field.
RefinedValue(fieldName, text) ==
    LET trimmed == trim(text)
    IN  CASE fieldName = "name" -> trimmed
          [] fieldName = "email" ->
                LET m == EMAIL_REGEX_match(normalizeEmailCandidate(trimmed))
                IN  normalizeEmailCandidate(IF m = NullText THEN <<>> ELSE m)
          [] OTHER -> normalizePhoneValue(trimmed)

\* A variant that also accepts a refined value of equal confidence.
AcceptRefinedOnEqual(field, refinedConfidence) ==
    ~Truthy(field.value) \/ ConfGe(refinedConfidence, field.confidence)

\* if (!field.value || refinedConfidence > field.confidence)
AcceptRefined(field, refinedConfidence) ==
    ~Truthy(field.value) \/ ConfGt(refinedConfidence, field.confidence)

\* The field after the refined recognition has returned.
Refined(field, fieldName, refined) ==
    LET refinedConfidence == meanConfidence(refined.words)
        refinedValue == RefinedValue(fieldName, refined.text)
    IN  IF ~Truthy(refinedValue) THEN field
        ELSE IF AcceptRefined(field, refinedConfidence)
             THEN [field EXCEPT !.value = refinedValue, !.confidence = refinedConfidence]
             ELSE field

RefineOrder == <<"name", "email", "phone">>

PublicField(field) == [value |-> field.value, confidence |-> roundConfidence(field.confidence)]

\* A variant whose image_width_px is off by the number of recognitions the
\* accepted attempt took.
StructuredCountingReruns(l) ==
    [raw_text |-> trim(l.finalGeneral.text),
     fields |-> [name |-> PublicField(l.nameField),
                 phone |-> PublicField(l.phoneField),
                 email |-> PublicField(l.emailField)],
     debug |-> [warnings |-> l.warningsSet, dpi |-> 300, psm_general |-> l.generalPSMUsed,
                image_width_px |-> l.finalPreprocess.canvas.width + l.recognitions,
                preprocess_steps |-> l.finalPreprocess.steps]]

\* const structured = { raw_text, fields, debug } (js/ocr.js 1271-1298)
Structured(l) ==
    [raw_text |-> trim(l.finalGeneral.text),
     fields |-> [name |-> PublicField(l.nameField),
                 phone |-> PublicField(l.phoneField),
                 email |-> PublicField(l.emailField)],
     debug |-> [warnings |-> l.warningsSet, dpi |-> 300, psm_general |-> l.generalPSMUsed,
                image_width_px |-> l.finalPreprocess.canvas.width,
                preprocess_steps |-> l.finalPreprocess.steps]]

\* The three maybeRefineLowConfidence calls from the k-th on, up to the first
\* that reaches its setParameters; when none does, the result is built.
ContinueFrom(l, k) ==
    LET due == {i \in k..Len(RefineOrder) : NeedsRefine(FieldOf(l, RefineOrder[i]))}
    IN  IF due = {}
        THEN [l EXCEPT !.pc = "done", !.refining = Null, !.returned = <<Structured(l)>>]
        ELSE LET i == CHOOSE a \in due : \A b \in due : a <= b
             IN  [l EXCEPT !.pc = "refine_setParameters", !.refining = RefineOrder[i]]

RefineIndex(fieldName) == CHOOSE i \in DOMAIN RefineOrder : RefineOrder[i] = fieldName

\* What a step that ends in ContinueFrom does to the worker and the context.
Proceed(r, l) ==
    /\ run' = [run EXCEPT ![r] = l]
    /\ IF l.pc = "refine_setParameters"
       THEN /\ recognitionContext' = OtherContext("Refine field")
            /\ tesseract' = PostSetParameters(FinishJob(tesseract, r), r, RefineParams(l.refining))
       ELSE /\ recognitionContext' = NoContext
            /\ tesseract' = FinishJob(tesseract, r)

\* After recognize of the phone pass: the fields are extracted (1244-1255)
\* and the refinements begin.
AfterPhoneRecognize(r) ==
    /\ run[r].pc = "phone_recognize"
    /\ \E phoneResult \in tesseract.stub.phone :
        LET l == run[r]
            fromLines == extractEmailFromLines(l.finalGeneral.lines)
            nameField == extractName(l.finalGeneral.lines)
            emailField == IF ~Truthy(fromLines.value) THEN extractEmail(l.emailResult.words)
                          ELSE fromLines
            phoneField == extractPhone(phoneResult.words)
        IN  Proceed(r, ContinueFrom(
                [l EXCEPT !.nameField = nameField,
                          !.emailField = emailField,
                          !.phoneField = phoneField,
                          !.extracted = [name |-> nameField, email |-> emailField,
                                         phone |-> phoneField]], 1))
    /\ UNCHANGED <<state, input, output>>

\* After recognize of a refinement: the field is updated in place and the
\* remaining refinements follow.
AfterRefineRecognize(r) ==
    /\ run[r].pc = "refine_recognize"
    /\ \E refined \in tesseract.stub.refine :
        LET l == run[r]
            field == Refined(FieldOf(l, l.refining), l.refining, refined)
        IN  Proceed(r, ContinueFrom(
                [l EXCEPT !.nameField = IF l.refining = "name" THEN field ELSE @,
                          !.emailField = IF l.refining = "email" THEN field ELSE @,
                          !.phoneField = IF l.refining = "phone" THEN field ELSE @,
                          !.refinedWith = [@ EXCEPT ![l.refining] = refined]],
                RefineIndex(l.refining) + 1))
    /\ UNCHANGED <<state, input, output>>

(***************************************************************************)
(* Specifications.                                                         *)
(***************************************************************************)
Step(r) ==
    \/ AfterEnsureWorker(r)
    \/ AfterSetParameters(r)
    \/ AfterGeneralRecognize(r)
    \/ AfterLoadLanguage(r)
    \/ AfterInitialize(r)
    \/ AfterEmailRecognize(r)
    \/ AfterPhoneRecognize(r)
    \/ AfterRefineRecognize(r)

Engine ==
    \/ \E w \in 1..MaxCalls : WorkerReady(w)
    \/ \E w \in 1..MaxCalls : WorkerFails(w)
    \/ WorkerLog

NoPure == input = <<>> /\ output = <<>>

\* One caller at a time: a call starts when no other is in flight, as on the
\* OCR page when no file is selected while the Process button's call runs
\* (js/ocr.js 1500, 1518).
CallAlone ==
    /\ \A q \in Requests : ~InFlight(q)
    /\ Call(1)

\* Two sessions: one whose worker may fail to start, and one that lacks the
\* Spanish language data and reports the other blocking warning.
OneCallerStubs ==
    {FullStub,
     [FullStub EXCEPT !.logs = {LogLine, LogProgress}, !.missing = {"spa"}, !.offline = FALSE]}

OneCallerInit == (\E stub \in OneCallerStubs : SessionInit(stub)) /\ NoPure
OneCallerNext == CallAlone \/ (\E r \in Requests : Step(r)) \/ Engine
SpecOneCaller == OneCallerInit /\ [][OneCallerNext]_vars

\* Callers that do not wait for one another (window.extractCardData is
\* public, and js/crm.js starts a call for every image that loads): the
\* calls may overlap.  The stub is kept small: one page with a faint name to
\* refine and a Polish glyph to load a language for, one blocking warning.
OverlapStub ==
    [general |-> {PolishPage},
     email   |-> {EmptyPage},
     phone   |-> {EmptyPage},
     refine  |-> {EmptyPage},
     logs    |-> {LogSmall},
     missing |-> {},
     offline |-> TRUE]

Init == SessionInit(OverlapStub) /\ NoPure
Next == (\E r \in Requests : Call(r)) \/ (\E r \in Requests : Step(r)) \/ Engine
Spec == Init /\ [][Next]_vars

(***************************************************************************)
(* computeAutoCropBox (js/ocr.js 759-815).  A mask is the row-major array  *)
(* binary[0 .. width*height-1] of 0 and 255.                               *)
(***************************************************************************)
NoCrop == [x |-> 0 - 1, y |-> 0 - 1, w |-> 0 - 1, h |-> 0 - 1]    \* the null result

\* rowSum[y], colSum[x]: the white pixels of a row, of a column.
rowSum(binary, width, height) ==
    [y \in 0..(height - 1) |-> Cardinality({x \in 0..(width - 1) : binary[y * width + x] = 255})]
colSum(binary, width, height) ==
    [x \in 0..(width - 1) |-> Cardinality({y \in 0..(height - 1) : binary[y * width + x] = 255})]

\* The starts of the windows of runReq consecutive entries above thresh.
RunStarts(arr, n, thresh, runReq) ==
    {i \in 0..(n - runReq) : \A k \in i..(i + runReq - 1) : arr[k] > thresh}

firstRunAbove(arr, n, thresh, runReq) ==
    LET starts == RunStarts(arr, n, thresh, runReq)
    IN  IF starts = {} THEN 0 ELSE CHOOSE i \in starts : \A k \in starts : i <= k

lastRunAbove(arr, n, thresh, runReq) ==
    LET starts == RunStarts(arr, n, thresh, runReq)
    IN  IF starts = {} THEN n - 1
        ELSE (CHOOSE i \in starts : \A k \in starts : i >= k) + runReq - 1

\* opts.minFrac ?? 0.35, in percent; opts.minRun ?? 10; opts.pad ?? 8
DefaultCropOpts == [minFrac |-> 35, minRun |-> 10, pad |-> 8]

computeAutoCropBox(binary, width, height, opts) ==
    LET rows == rowSum(binary, width, height)
        cols == colSum(binary, width, height)
        rowThresh == Max2(1, (width * opts.minFrac) \div 100)
        colThresh == Max2(1, (height * opts.minFrac) \div 100)
        top == firstRunAbove(rows, height, rowThresh, opts.minRun)
        bottom == lastRunAbove(rows, height, rowThresh, opts.minRun)
        left == firstRunAbove(cols, width, colThresh, opts.minRun)
        right == lastRunAbove(cols, width, colThresh, opts.minRun)
        ptop == Max2(0, top - opts.pad)
        pbottom == Min2(height - 1, bottom + opts.pad)
        pleft == Max2(0, left - opts.pad)
        pright == Min2(width - 1, right + opts.pad)
    IN  IF bottom <= top + 2 \/ right <= left + 2 THEN NoCrop
        ELSE [x |-> pleft, y |-> ptop, w |-> pright - pleft + 1, h |-> pbottom - ptop + 1]

MaxMask == 12      \* the side of the largest mask

\* A dark mask with the pixels of columns x0..x1, rows y0..y1 bright.
RectMask(width, height, x0, x1, y0, y1) ==
    [i \in 0..(width * height - 1) |->
        IF (i % width) \in x0..x1 /\ (i \div width) \in y0..y1 THEN 255 ELSE 0]

\* The masks studied: small and large, one bright rectangle.
AutoCropInit ==
    /\ \E width \in {4, MaxMask}, height \in {4, MaxMask} :
         \E x0 \in 0..(width - 1), y0 \in 0..(height - 1) :
           \E x1 \in {x0 - 1, x0 + 1, width - 1}, y1 \in {y0 - 1, y0 + 1, height - 1} :
             input = [binary |-> RectMask(width, height, x0, x1, y0, y1),
                      width |-> width, height |-> height]
    /\ output = <<>>
    /\ SessionInit(FullStub)

AutoCrop ==
    /\ output = <<>>
    /\ output' = <<computeAutoCropBox(input.binary, input.width, input.height, DefaultCropOpts)>>
    /\ UNCHANGED <<state, tesseract, recognitionContext, run, input>>

SpecAutoCrop == AutoCropInit /\ [][AutoCrop]_vars

(***************************************************************************)
(* normalizeEmailCandidate applied, and applied again to its result.       *)
(***************************************************************************)
MaxEmailLen == 3   \* the length of the longest candidate string

EmailChars == {"a", "O", "1", ".", "(", " ", "@", "bullet"}

RECURSIVE Strings(_, _)
\* The strings over chars of length at most n.
Strings(chars, n) ==
    IF n = 0 THEN {<<>>}
    ELSE LET shorter == Strings(chars, n - 1)
         IN  shorter \cup {Append(str, ch) : str \in shorter, ch \in chars}

EmailNormInit ==
    /\ input \in Strings(EmailChars, MaxEmailLen)
    /\ output = <<>>
    /\ SessionInit(FullStub)

NormalizeOnce ==
    /\ output = <<>>
    /\ output' = <<normalizeEmailCandidate(input)>>
    /\ UNCHANGED <<state, tesseract, recognitionContext, run, input>>

NormalizeAgain ==
    /\ Len(output) = 1
    /\ output' = Append(output, normalizeEmailCandidate(output[1]))
    /\ UNCHANGED <<state, tesseract, recognitionContext, run, input>>

SpecEmailNorm == EmailNormInit /\ [][NormalizeOnce \/ NormalizeAgain]_vars

(***************************************************************************)
(* extractEmailFromLines applied to the lines of a recognized page.        *)
(***************************************************************************)
MaxLines == 2      \* the lines of the longest page

TxtNoTld == <<"a", "@", "b">>

\* An address split in two words of one band; the first carries the '@'.
SplitEmailLine(c1, c2) ==
    [text |-> <<"a", "@", "b", " ", ".", "c", "o">>,
     words |-> <<Word(<<"a", "@", "b">>, c1, Box(10, 30, 40, 40)),
                 Word(<<".", "c", "o">>, c2, Box(45, 30, 70, 40))>>]

\* Lines with and without an address, of several confidences, one of them 0.
EmailLineKinds ==
    {EmailLine(TxtEmail, 45), EmailLine(TxtEmailX, 45), EmailLine(TxtEmailX, 70),
     EmailLine(TxtEmail, 0), EmailLine(TxtNoTld, 90), NameLine(92, TRUE),
     SplitEmailLine(80, 40),
     [text |-> TxtEmail, words |-> <<Word(TxtEmail, 95, NoBox)>>]}

RECURSIVE Pages(_, _)
\* The sequences of at most n lines drawn from kinds.
Pages(kinds, n) ==
    IF n = 0 THEN {<<>>}
    ELSE LET shorter == Pages(kinds, n - 1)
         IN  shorter \cup {Append(lines, line) : lines \in shorter, line \in kinds}

EmailLinesInit ==
    /\ input \in Pages(EmailLineKinds, MaxLines)
    /\ output = <<>>
    /\ SessionInit(FullStub)

ExtractEmailFromLines ==
    /\ output = <<>>
    /\ output' = <<extractEmailFromLines(input)>>
    /\ UNCHANGED <<state, tesseract, recognitionContext, run, input>>

SpecEmailLines == EmailLinesInit /\ [][ExtractEmailFromLines]_vars

(***************************************************************************)
(* extractName applied to the lines of a recognized page.                  *)
(***************************************************************************)
RECURSIVE JoinSpace(_)
\* The text of a line whose words are the tokens.
JoinSpace(tokens) ==
    IF tokens = <<>> THEN <<>>
    ELSE IF Len(tokens) = 1 THEN tokens[1]
    ELSE tokens[1] \o <<" ">> \o JoinSpace(Tail(tokens))

\* A line as the engine returns it: one word per token, all of confidence c.
TextLine(tokens, c) ==
    [text |-> JoinSpace(tokens),
     words |-> [i \in DOMAIN tokens |-> Word(tokens[i], c, Box(10 + 30 * i, 10, 35 + 30 * i, 20))]]

TxtSarah == <<"S", "A", "R", "A", "H">>
TxtJohnson == <<"J", "O", "H", "N", "S", "O", "N">>
Txt555 == <<"5", "5", "5">>
TxtPark == <<"P", "A", "R", "K">>
TxtAve == <<"A", "V", "E">>

SarahLine == TextLine(<<TxtSarah, TxtJohnson>>, 92)
ParkLine == TextLine(<<Txt555, TxtPark, TxtAve>>, 95)

\* Lines a name may and may not be taken from, of several confidences.
NameLineKinds ==
    {SarahLine, ParkLine,
     TextLine(<<TxtAl, TxtPo>>, 60), TextLine(<<TxtAl, TxtPo>>, 0),
     TextLine(<<TxtPo, TxtAl>>, 92), TextLine(<<TxtSarah>>, 99),
     TextLine(<<TxtAl, <<"p", "o">>>>, 97), TextLine(<<TxtAl, <<"(", "P", "o", ")">>>>, 98),
     TextLine(<<TxtAl, TxtPo, TxtEmail>>, 96), TextLine(<<TxtAl, TxtPo, <<"+">>>>, 94)}

NameLinesInit ==
    /\ input \in Pages(NameLineKinds, MaxLines)
    /\ output = <<>>
    /\ SessionInit(FullStub)

ExtractName ==
    /\ output = <<>>
    /\ output' = <<extractName(input)>>
    /\ UNCHANGED <<state, tesseract, recognitionContext, run, input>>

SpecNameLines == NameLinesInit /\ [][ExtractName]_vars

(***************************************************************************)
(* normalizePhoneValue applied, and applied again to its non-null result.  *)
(***************************************************************************)
MaxPhoneLen == 3   \* the length of the longest free-form phone text

PhoneChars == {"5", "1", "+", "-", "(", ".", " "}

\* "+1 (555) 123-4567" and "555.123.4567"
PhoneExamplePlus ==
    <<"+", "1", " ", "(", "5", "5", "5", ")", " ", "1", "2", "3", "-", "4", "5", "6", "7">>
PhoneExampleDots == <<"5", "5", "5", ".", "1", "2", "3", ".", "4", "5", "6", "7">>

PhoneNormInit ==
    /\ input \in Strings(PhoneChars, MaxPhoneLen) \cup {PhoneExamplePlus, PhoneExampleDots}
    /\ output = <<>>
    /\ SessionInit(FullStub)

NormalizePhoneOnce ==
    /\ output = <<>>
    /\ output' = <<normalizePhoneValue(input)>>
    /\ UNCHANGED <<state, tesseract, recognitionContext, run, input>>

NormalizePhoneAgain ==
    /\ Len(output) = 1
    /\ output[1] # NullText
    /\ output' = Append(output, normalizePhoneValue(output[1]))
    /\ UNCHANGED <<state, tesseract, recognitionContext, run, input>>

SpecPhoneNorm == PhoneNormInit /\ [][NormalizePhoneOnce \/ NormalizePhoneAgain]_vars

(***************************************************************************)
(* computeAutoCropBoxSmart (js/ocr.js 822-873) and computeAutoCropBoxCC    *)
(* (js/ocr.js 881-960), and the three strategies applied to one mask.      *)
(***************************************************************************)
\* rowBlack[y], colBlack[x]: the pixels of value 0 of a row, of a column.
rowBlack(binary, width, height) ==
    [y \in 0..(height - 1) |-> Cardinality({x \in 0..(width - 1) : binary[y * width + x] = 0})]
colBlack(binary, width, height) ==
    [x \in 0..(width - 1) |-> Cardinality({y \in 0..(height - 1) : binary[y * width + x] = 0})]

\* The starts of the windows of runReq consecutive entries of at least thresh.
EdgeRunStarts(arr, n, thresh, runReq) ==
    {i \in 0..(n - runReq) : \A k \in i..(i + runReq - 1) : arr[k] >= thresh}

\* firstRunAbove and lastRunAbove of computeAutoCropBoxSmart: -1 without a run.
firstEdgeRun(arr, n, thresh, runReq) ==
    LET starts == EdgeRunStarts(arr, n, thresh, runReq)
    IN  IF starts = {} THEN 0 - 1 ELSE CHOOSE i \in starts : \A k \in starts : i <= k

lastEdgeRun(arr, n, thresh, runReq) ==
    LET starts == EdgeRunStarts(arr, n, thresh, runReq)
    IN  IF starts = {} THEN 0 - 1
        ELSE (CHOOSE i \in starts : \A k \in starts : i >= k) + runReq - 1

computeAutoCropBoxSmart(binary, width, height) ==
    LET rows == rowBlack(binary, width, height)
        cols == colBlack(binary, width, height)
        rowEdgeThresh == (width * 60) \div 100
        colEdgeThresh == (height * 60) \div 100
        topEdge == firstEdgeRun(rows, height, rowEdgeThresh, 2)
        bottomEdge == lastEdgeRun(rows, height, rowEdgeThresh, 2)
        leftEdge == firstEdgeRun(cols, width, colEdgeThresh, 2)
        rightEdge == lastEdgeRun(cols, width, colEdgeThresh, 2)
        padIn == 1
        x == Max2(0, leftEdge + padIn)
        y == Max2(0, topEdge + padIn)
        w == Min2(width - x, rightEdge - leftEdge - padIn * 2 + 1)
        h == Min2(height - y, bottomEdge - topEdge - padIn * 2 + 1)
    IN  IF /\ topEdge >= 0 /\ bottomEdge >= 0 /\ leftEdge >= 0 /\ rightEdge >= 0
           /\ bottomEdge > topEdge + 4 /\ rightEdge > leftEdge + 4
           /\ w > 8 /\ h > 8
        THEN [x |-> x, y |-> y, w |-> w, h |-> h]
        ELSE computeAutoCropBox(binary, width, height, DefaultCropOpts)

\* stride 3, blockWhite 0.6 (in percent), pad 8: the defaults of the CC crop.
DefaultCCOpts == [stride |-> 3, blockWhite |-> 60, pad |-> 8]

\* grid: the cells <<gx, gy>> of the coarse grid whose block is mostly white.
WhiteCells(binary, width, height, opts) ==
    LET w2 == Max2(1, width \div opts.stride)
        h2 == Max2(1, height \div opts.stride)
    IN  {c \in (0..(w2 - 1)) \X (0..(h2 - 1)) :
            LET x0 == c[1] * opts.stride
                y0 == c[2] * opts.stride
                x1 == Min2(width, x0 + opts.stride)
                y1 == Min2(height, y0 + opts.stride)
                area == (x1 - x0) * (y1 - y0)
                whites == Cardinality({p \in (x0..(x1 - 1)) \X (y0..(y1 - 1)) :
                                          binary[p[2] * width + p[1]] = 255})
            IN  whites * 100 >= opts.blockWhite * area}

RECURSIVE Component(_, _, _)
\* The 4-connected cells of grid reached from frontier (the BFS from one cell).
Component(grid, seen, frontier) ==
    IF frontier = {} THEN seen
    ELSE LET next == {c \in grid \ seen :
                        \E f \in frontier :
                            \/ (c[1] = f[1] /\ (c[2] = f[2] - 1 \/ c[2] = f[2] + 1))
                            \/ (c[2] = f[2] /\ (c[1] = f[1] - 1 \/ c[1] = f[1] + 1))}
         IN  Component(grid, seen \cup next, next)

\* The cell the row-major scan meets first.
FirstCell(cells) ==
    CHOOSE c \in cells : \A d \in cells : c[2] < d[2] \/ (c[2] = d[2] /\ c[1] <= d[1])

RECURSIVE LargestComponent(_, _)
\* The scan over the grid: best is the first component of the largest area.
LargestComponent(left, best) ==
    IF left = {} THEN best
    ELSE LET start == FirstCell(left)
             comp == Component(left, {start}, {start})
         IN  LargestComponent(left \ comp,
                              IF Cardinality(comp) > Cardinality(best) THEN comp ELSE best)

computeAutoCropBoxCC(binary, width, height, opts) ==
    LET best == LargestComponent(WhiteCells(binary, width, height, opts), {})
        minx == CHOOSE a \in {c[1] : c \in best} : \A c \in best : a <= c[1]
        maxx == CHOOSE a \in {c[1] : c \in best} : \A c \in best : a >= c[1]
        miny == CHOOSE a \in {c[2] : c \in best} : \A c \in best : a <= c[2]
        maxy == CHOOSE a \in {c[2] : c \in best} : \A c \in best : a >= c[2]
        left == Max2(0, minx * opts.stride - opts.pad)
        top == Max2(0, miny * opts.stride - opts.pad)
        right == Min2(width - 1, (maxx + 1) * opts.stride + opts.pad - 1)
        bottom == Min2(height - 1, (maxy + 1) * opts.stride + opts.pad - 1)
    IN  IF best = {} THEN NoCrop
        ELSE IF bottom <= top + 2 \/ right <= left + 2 THEN NoCrop
        ELSE [x |-> left, y |-> top, w |-> right - left + 1, h |-> bottom - top + 1]

WideMask == 40     \* the side of the masks with room for wide margins

\* A strategy that has not been applied yet.
NotRun == [x |-> 0 - 2, y |-> 0 - 2, w |-> 0 - 2, h |-> 0 - 2]

\* The margins of the centered rectangles studied.
Margins(side) == {m \in {0, 1, 2, 5, 12, 18} : 2 * m < side}

\* A dark mask with one centered bright rectangle: margins mx and my.
LocalizeInit ==
    /\ \E width \in {MaxMask, WideMask}, height \in {MaxMask, WideMask} :
         \E mx \in Margins(width), my \in Margins(height) :
            input = [binary |-> RectMask(width, height, mx, width - 1 - mx, my, height - 1 - my),
                     width |-> width, height |-> height,
                     rect |-> [x0 |-> mx, x1 |-> width - 1 - mx, y0 |-> my, y1 |-> height - 1 - my]]
    /\ output = [cc |-> NotRun, smart |-> NotRun, plain |-> NotRun]
    /\ SessionInit(FullStub)

LocalizeCC ==
    /\ output.cc = NotRun
    /\ output' = [output EXCEPT !.cc =
                    computeAutoCropBoxCC(input.binary, input.width, input.height, DefaultCCOpts)]
    /\ UNCHANGED <<state, tesseract, recognitionContext, run, input>>

LocalizeSmart ==
    /\ output.smart = NotRun
    /\ output' = [output EXCEPT !.smart =
                    computeAutoCropBoxSmart(input.binary, input.width, input.height)]
    /\ UNCHANGED <<state, tesseract, recognitionContext, run, input>>

LocalizePlain ==
    /\ output.plain = NotRun
    /\ output' = [output EXCEPT !.plain =
                    computeAutoCropBox(input.binary, input.width, input.height, DefaultCropOpts)]
    /\ UNCHANGED <<state, tesseract, recognitionContext, run, input>>

SpecLocalize == LocalizeInit /\ [][LocalizeCC \/ LocalizeSmart \/ LocalizePlain]_vars

(***************************************************************************)
(* morphologyOpen (js/ocr.js 718-751): a 3x3 erosion, then a 3x3 dilation, *)
(* the coordinates clamped at the image border.                            *)
(***************************************************************************)
\* The indices py * width + px of the clamped 3x3 neighbourhood of (x, y).
ClampedNeighbours(x, y, width, height) ==
    {Min2(height - 1, Max2(0, y + ky)) * width + Min2(width - 1, Max2(0, x + kx)) :
        kx \in {0 - 1, 0, 1}, ky \in {0 - 1, 0, 1}}

\* An array once it is filled: f with each of its values computed once.
Filled(f) == f @@ <<>>

MinOf(values) == CHOOSE v \in values : \A u \in values : v <= u
MaxOf(values) == CHOOSE v \in values : \A u \in values : v >= u

\* A variant of the first pass that leaves the mask as it is.
ErodeNothing(binary, width, height) == binary

\* eroded[y * width + x] = min over the neighbourhood
Erode(binary, width, height) ==
    [i \in 0..(width * height - 1) |->
        MinOf({binary[k] : k \in ClampedNeighbours(i % width, i \div width, width, height)})]

\* dilated[y * width + x] = max over the neighbourhood
Dilate(eroded, width, height) ==
    [i \in 0..(width * height - 1) |->
        MaxOf({eroded[k] : k \in ClampedNeighbours(i % width, i \div width, width, height)})]

morphologyOpen(binary, width, height) ==
    Dilate(Filled(Erode(binary, width, height)), width, height)

MaxOpenSide == 3   \* the side of the largest mask that is opened

\* Every mask of 0 and 255 of every width and height up to MaxOpenSide.
MorphOpenInit ==
    /\ \E width \in 1..MaxOpenSide, height \in 1..MaxOpenSide :
         \E binary \in [0..(width * height - 1) -> {0, 255}] :
            input = [binary |-> binary, width |-> width, height |-> height]
    /\ output = <<>>
    /\ SessionInit(FullStub)

MorphOpen ==
    /\ output = <<>>
    /\ output' = <<morphologyOpen(input.binary, input.width, input.height)>>
    /\ UNCHANGED <<state, tesseract, recognitionContext, run, input>>

SpecMorphOpen == MorphOpenInit /\ [][MorphOpen]_vars

(***************************************************************************)
(* otsuThreshold (js/ocr.js 684-712).  The between-class variance is kept  *)
(* as the exact fraction <<(sumB*wF - sumF*wB)^2, wB*wF>>.  The code       *)
(* computes it in double precision: two variances that are equal as        *)
(* fractions but computed from different operands through a mean that has  *)
(* no finite binary expansion may compare either way after rounding.       *)
(***************************************************************************)
RECURSIVE GCD(_, _)
GCD(a, b) == IF b = 0 THEN a ELSE GCD(b, a % b)

\* n / d is a double without rounding: the reduced denominator is a power of 2.
ExactQuotient(n, d) == (d \div GCD(n, d)) \in {1, 2, 4, 8, 16, 32, 64}

\* histogram[v]: the number of values equal to v.
Histogram(values) ==
    [v \in 0..255 |-> Cardinality({k \in DOMAIN values : values[k] = v})]

\* wB * wF * (mB - mF)^2 as a fraction.
Between(wB, wF, sumB, sumF) ==
    <<(sumB * wF - sumF * wB) * (sumB * wF - sumF * wB), wB * wF>>

\* The first bin from i on that holds a value, 256 when there is none.
NextBin(histogram, i) ==
    LET filled == {v \in i..255 : histogram[v] > 0}
    IN  IF filled = {} THEN 256 ELSE CHOOSE v \in filled : \A u \in filled : v <= u

RECURSIVE OtsuLoop(_, _, _, _, _)
\* The second loop at bin i, which holds a value, and from there on.  An
\* empty bin is passed over: there wB is still 0, or the variance is
\* computed again from the operands of the bin before and is not greater
\* than the maximum.  acc holds wB, sumB, maximum and threshold, and how the
\* maximum was computed: its operands and whether it is exact.  The result
\* is the set of thresholds the loop can end with.
OtsuLoop(histogram, total, sum, i, acc) ==
    IF i > 255 THEN {acc.threshold}
    ELSE LET wB == acc.wB + histogram[i]
             wF == total - wB
             sumB == acc.sumB + i * histogram[i]
             between == Between(wB, wF, sumB, sum - sumB)
             exact == ExactQuotient(sumB, wB) /\ ExactQuotient(sum - sumB, wF)
             next == NextBin(histogram, i + 1)
             skip == [acc EXCEPT !.wB = wB, !.sumB = sumB]
             take == [wB |-> wB, sumB |-> sumB, maximum |-> between, threshold |-> i,
                      maxExact |-> exact]
         IN  IF wF = 0 THEN {acc.threshold}
             ELSE IF ConfGt(between, acc.maximum)
                  THEN OtsuLoop(histogram, total, sum, next, take)
             ELSE IF ~ConfEq(between, acc.maximum)
                  THEN OtsuLoop(histogram, total, sum, next, skip)
             ELSE IF exact /\ acc.maxExact
                  THEN OtsuLoop(histogram, total, sum, next, skip)
             ELSE OtsuLoop(histogram, total, sum, next, skip)
                    \cup OtsuLoop(histogram, total, sum, next, take)

RECURSIVE SumValues(_)
SumValues(values) == IF values = <<>> THEN 0 ELSE Head(values) + SumValues(Tail(values))

\* The thresholds otsuThreshold can return for the values.
otsuThreshold(values) ==
    OtsuLoop(Histogram(values), Len(values), SumValues(values),
             NextBin(Histogram(values), 0),
             [wB |-> 0, sumB |-> 0, maximum |-> Frac(0), threshold |-> 0, maxExact |-> TRUE])

MaxPixels == 5     \* the pixels of the largest image thresholded

OtsuLevels == {0, 6, 10, 14, 255}

RECURSIVE Images(_, _)
\* The images of 1 to n pixels over the levels.
Images(levels, n) ==
    IF n = 1 THEN {<<v>> : v \in levels}
    ELSE LET smaller == Images(levels, n - 1)
         IN  smaller \cup {Append(img, v) : img \in {s \in smaller : Len(s) = n - 1}, v \in levels}

OtsuInit ==
    /\ input \in Images(OtsuLevels, MaxPixels)
    /\ output = <<>>
    /\ SessionInit(FullStub)

Otsu ==
    /\ output = <<>>
    /\ \E threshold \in otsuThreshold(input) : output' = <<threshold>>
    /\ UNCHANGED <<state, tesseract, recognitionContext, run, input>>

SpecOtsu == OtsuInit /\ [][Otsu]_vars

(***************************************************************************)
(* The manual crop of preprocessImage (js/ocr.js 304-316).  Percentages    *)
(* are integers; Math.round of size * fraction is computed in double       *)
(* precision, so a product that is exactly a half may be rounded either    *)
(* way (3 * (1 - 0.16 - 0.34) is rounded to 1, 5 * 0.3 to 2).              *)
(***************************************************************************)
\* Math.min(Math.max(value || 0, 0), 40), in percent
ClampCrop(value) == Min2(Max2(value, 0), 40)

\* The values Math.round(size * percent / 100) can take.
RoundPercent(size, percent) ==
    LET nearest == (2 * size * percent + 100) \div 200
    IN  IF (2 * size * percent) % 200 = 100 THEN {nearest - 1, nearest} ELSE {nearest}

\* The rectangles cropRect can be for an image and the adjustments.
cropRect(naturalWidth, naturalHeight, adjustments) ==
    LET top == ClampCrop(adjustments.cropTop)
        bottom == ClampCrop(adjustments.cropBottom)
        left == ClampCrop(adjustments.cropLeft)
        right == ClampCrop(adjustments.cropRight)
    IN  {[x |-> x, y |-> y, width |-> width, height |-> height] :
            x \in RoundPercent(naturalWidth, left),
            y \in RoundPercent(naturalHeight, top),
            width \in RoundPercent(naturalWidth, 100 - left - right),
            height \in RoundPercent(naturalHeight, 100 - top - bottom)}

MaxCropSide == 5   \* the side of the largest image that is cropped

\* The crop percentages studied, one of them beyond the slider's range.
CropPercents == {0, 10, 30, 40, 55}

CropRectInit ==
    /\ \E naturalWidth \in 1..MaxCropSide, naturalHeight \in 1..MaxCropSide :
         \E adjustments \in [cropTop : CropPercents, cropBottom : CropPercents,
                             cropLeft : CropPercents, cropRight : CropPercents] :
            input = [naturalWidth |-> naturalWidth, naturalHeight |-> naturalHeight,
                     adjustments |-> adjustments]
    /\ output = <<>>
    /\ SessionInit(FullStub)

CropRect ==
    /\ output = <<>>
    /\ \E rect \in cropRect(input.naturalWidth, input.naturalHeight, input.adjustments) :
          output' = <<rect>>
    /\ UNCHANGED <<state, tesseract, recognitionContext, run, input>>

SpecCropRect == CropRectInit /\ [][CropRect]_vars

(***************************************************************************)
(* Two extractCardData calls, one after the other, in a session whose      *)
(* recognition engine is deterministic: every pass has one answer and      *)
(* every general recognition reports the same messages (the script).  The  *)
(* first call runs in slot 1 and the second in slot 2, so that both        *)
(* results stay visible.                                                   *)
(***************************************************************************)
DeterministicStubs ==
    {[general |-> {general}, email |-> {email}, phone |-> {Page(<<PhoneLine(60)>>)},
      refine |-> {refine}, logs |-> {}, missing |-> missing, offline |-> FALSE,
      script |-> script] :
        general \in {CardPage, FaintPage, PolishPage, AccentPage},
        email \in {EmptyPage, Page(<<EmailLine(TxtEmail, 70)>>)},
        refine \in {EmptyPage, Page(<<EmailLine(TxtEmail, 80)>>), Page(<<PhoneLine(80)>>)},
        missing \in {{}, {"spa"}},
        script \in {<<>>, <<LogSmall>>, <<LogProgress>>}}

\* The next call of the session starts when the one before has settled.
CallInTurn ==
    /\ \A q \in Requests : ~InFlight(q)
    /\ tesseract.calls + 1 \in Requests
    /\ Call(tesseract.calls + 1)

\* The worker reports the next message of the script on the general
\* recognition it is running.
ScriptedLog ==
    /\ \E r \in Requests :
        /\ run[r].pc = "general_recognize"
        /\ Len(run[r].logs) < Len(tesseract.stub.script)
        /\ handleWorkerLog(tesseract.stub.script[Len(run[r].logs) + 1])
    /\ UNCHANGED <<state, tesseract, recognitionContext, input, output>>

\* The general recognition resolves once its messages have been delivered.
ScriptedGeneralRecognize(r) ==
    /\ run[r].logs = tesseract.stub.script
    /\ AfterGeneralRecognize(r)

ScriptedStep(r) ==
    \/ AfterEnsureWorker(r)
    \/ AfterSetParameters(r)
    \/ ScriptedGeneralRecognize(r)
    \/ AfterLoadLanguage(r)
    \/ AfterInitialize(r)
    \/ AfterEmailRecognize(r)
    \/ AfterPhoneRecognize(r)
    \/ AfterRefineRecognize(r)

TwoRunsInit == (\E stub \in DeterministicStubs : SessionInit(stub)) /\ NoPure
TwoRunsNext ==
    \/ CallInTurn
    \/ \E r \in Requests : ScriptedStep(r)
    \/ \E w \in 1..MaxCalls : WorkerReady(w)
    \/ ScriptedLog
SpecTwoRuns == TwoRunsInit /\ [][TwoRunsNext]_vars

(***************************************************************************)
(* preprocessImage of scripts/ocrEngine.js (312-320): the OpenCV path and  *)
(* the canvas path it falls back to.  An image is its grey pixels (R = G = *)
(* B), a data URL the pixels of the canvas it encodes.  input holds the    *)
(* environment of one call: the image, what becomes of the OpenCV library, *)
(* the library call that throws (if any), the contours findContours        *)
(* reports and whether the library's two variants encode to the same URL.  *)
(* output holds the call: its position, openCvReadyPromise, the functions  *)
(* entered so far and the value the call settled with.                     *)
(***************************************************************************)
NoPreprocessResult ==
    [clean |-> <<>>, thresholded |-> <<>>, defaultVariant |-> "none", variants |-> <<>>,
     meta |-> [fallback |-> FALSE, crop |-> "none", size |-> [width |-> 0, height |-> 0]]]

\* createPreprocessResult (scripts/ocrEngine.js 599-620)
createPreprocessResult(cleanDataUrl, thresholdDataUrl, meta) ==
    LET first == IF cleanDataUrl # <<>>
                 THEN <<[type |-> "clean", dataUrl |-> cleanDataUrl]>> ELSE <<>>
        second == IF thresholdDataUrl # <<>> /\ thresholdDataUrl # cleanDataUrl
                  THEN Append(first, [type |-> "thresholded", dataUrl |-> thresholdDataUrl])
                  ELSE first
        variants == IF second = <<>> /\ cleanDataUrl # <<>>
                    THEN <<[type |-> "processed", dataUrl |-> cleanDataUrl]>> ELSE second
    IN  [clean |-> cleanDataUrl, thresholded |-> thresholdDataUrl,
         defaultVariant |-> IF variants # <<>> THEN variants[1].type ELSE "clean",
         variants |-> variants, meta |-> meta]

RECURSIVE SumSquares(_)
SumSquares(values) ==
    IF values = <<>> THEN 0 ELSE Head(values) * Head(values) + SumSquares(Tail(values))

\* grayscaleValues[pixel] > adaptiveThreshold, with adaptiveThreshold =
\* max(60, min(200, mean - stddev * 0.3)) and mean, stddev from
\* computeValueStats (637-651).  With n values of sum s and sum of squares q,
\* g > mean - 0.3 * stddev is n*g - s > -0.3 * sqrt(n*q - s*s).
AboveAdaptiveThreshold(g, values) ==
    LET n == Len(values)
        s == SumValues(values)
        d == s - n * g
        variance == n * SumSquares(values) - s * s
    IN  IF g <= 60 THEN FALSE
        ELSE IF g > 200 THEN TRUE
        ELSE d < 0 \/ 100 * d * d < 9 * variance

\* preprocessWithCanvas after the image has loaded (353-395): the grey image
\* and its thresholded twin, of the size of the whole image.
preprocessWithCanvas(image) ==
    LET cleanDataUrl == image.pixels
        thresholdedDataUrl ==
            [i \in DOMAIN image.pixels |->
                IF AboveAdaptiveThreshold(image.pixels[i], image.pixels) THEN 255 ELSE 0]
    IN  createPreprocessResult(cleanDataUrl, thresholdedDataUrl,
            [fallback |-> TRUE, crop |-> "none",
             size |-> [width |-> image.width, height |-> image.height]])

\* The loop of detectCardRegion (426-455) over the contours from the i-th on:
\* the index of the largest 4-point contour of at least a quarter of the
\* working image, 0 when there is none.  Areas are in percent of the image.
RECURSIVE BestContour(_, _, _, _)
BestContour(contours, i, best, bestArea) ==
    IF i > Len(contours) THEN best
    ELSE IF contours[i].area < 25 THEN BestContour(contours, i + 1, best, bestArea)
    ELSE IF contours[i].rows = 4 /\ contours[i].area > bestArea
         THEN BestContour(contours, i + 1, i, contours[i].area)
         ELSE BestContour(contours, i + 1, best, bestArea)

\* detectCardRegion (398-478): the corners of the best contour, or those of
\* the whole image.
detectCardRegion(contours) ==
    LET best == BestContour(contours, 1, 0, 0)
    IN  IF best # 0 THEN [points |-> "contour"] ELSE [points |-> "image"]

\* preprocessWithOpenCV after the image has loaded (324-349), when no library
\* call throws: the variants of the warped region.
preprocessWithOpenCV(env) ==
    LET region == detectCardRegion(env.contours)
        cleanDataUrl == env.image.pixels
        thresholdDataUrl == IF env.sameVariants THEN cleanDataUrl
                            ELSE [i \in DOMAIN cleanDataUrl |-> 255 - cleanDataUrl[i]]
    IN  createPreprocessResult(cleanDataUrl, thresholdDataUrl,
            [fallback |-> FALSE, crop |-> region.points,
             size |-> [width |-> env.image.width, height |-> env.image.height]])

MaxContours == 2   \* contours findContours reports for an image

ContourKinds ==
    {[area |-> 10, rows |-> 4], [area |-> 30, rows |-> 4],
     [area |-> 60, rows |-> 4], [area |-> 60, rows |-> 5]}

CardImages ==
    {[width |-> Len(pixels), height |-> 1, pixels |-> pixels, decodes |-> decodes] :
        pixels \in {<<0>>, <<100>>, <<0, 255>>, <<100, 255>>}, decodes \in BOOLEAN}

\* What the library calls of the OpenCV path are, in their order.
OpenCVCalls == <<"imread", "detectCardRegion", "warpCardToTopDown", "generateNormalizedVariants">>

PreprocessInit ==
    /\ \E image \in CardImages, contours \in Pages(ContourKinds, MaxContours),
          library \in {"present", "loads", "noScript", "noRuntime"},
          throws \in {"none"} \cup {OpenCVCalls[i] : i \in DOMAIN OpenCVCalls},
          sameVariants \in BOOLEAN :
            input = [image |-> image, contours |-> contours, library |-> library,
                     throws |-> throws, sameVariants |-> sameVariants]
    /\ output = [pc |-> "idle", openCvReadyPromise |-> "null", entered |-> <<>>,
                 result |-> NoPreprocessResult]
    /\ SessionInit(FullStub)

PreprocessUnchanged == UNCHANGED <<state, tesseract, recognitionContext, run, input>>

\* preprocessImage(dataUrl) is called: ensureOpenCVReady (49-74) returns
\* window.cv when it is there, and starts loading the script otherwise.
PreprocessCall ==
    /\ output.pc = "idle"
    /\ output' = IF input.library = "present"
                 THEN [output EXCEPT !.pc = "loadImageElement_opencv",
                                     !.entered = <<"ensureOpenCVReady", "preprocessWithOpenCV">>]
                 ELSE [output EXCEPT !.pc = "ensureOpenCVReady",
                                     !.openCvReadyPromise = "pending",
                                     !.entered = <<"ensureOpenCVReady">>]
    /\ PreprocessUnchanged

\* openCvReadyPromise settles: the script loads and the runtime initializes,
\* or one of them fails, the promise is forgotten and the catch of
\* preprocessImage enters preprocessWithCanvas.
OpenCVSettles ==
    /\ output.pc = "ensureOpenCVReady"
    /\ output' = IF input.library = "loads"
                 THEN [output EXCEPT !.pc = "loadImageElement_opencv",
                                     !.openCvReadyPromise = "resolved",
                                     !.entered = Append(@, "preprocessWithOpenCV")]
                 ELSE [output EXCEPT !.pc = "loadImageElement_canvas",
                                     !.openCvReadyPromise = "null",
                                     !.entered = Append(@, "preprocessWithCanvas")]
    /\ PreprocessUnchanged

\* A variant without the catch around preprocessWithOpenCV: a library call
\* that throws rejects the call.
ImageLoadsForOpenCVUncaught ==
    /\ output.pc = "loadImageElement_opencv"
    /\ output' = IF input.image.decodes /\ input.throws = "none"
                 THEN [output EXCEPT !.pc = "resolved",
                                     !.entered = @ \o OpenCVCalls,
                                     !.result = preprocessWithOpenCV(input)]
                 ELSE [output EXCEPT !.pc = "rejected"]
    /\ PreprocessUnchanged

\* loadImageElement settles in preprocessWithOpenCV: the rest of the path
\* runs without an await.  A rejection, or a library call that throws,
\* reaches the catch of preprocessImage, which enters preprocessWithCanvas.
ImageLoadsForOpenCV ==
    /\ output.pc = "loadImageElement_opencv"
    /\ output' = IF input.image.decodes /\ input.throws = "none"
                 THEN [output EXCEPT !.pc = "resolved",
                                     !.entered = @ \o OpenCVCalls,
                                     !.result = preprocessWithOpenCV(input)]
                 ELSE [output EXCEPT !.pc = "loadImageElement_canvas",
                                     !.entered = Append(@, "preprocessWithCanvas")]
    /\ PreprocessUnchanged

\* loadImageElement settles in preprocessWithCanvas; nothing catches its
\* rejection.
ImageLoadsForCanvas ==
    /\ output.pc = "loadImageElement_canvas"
    /\ output' = IF input.image.decodes
                 THEN [output EXCEPT !.pc = "resolved",
                                     !.entered = Append(@, "computeValueStats"),
                                     !.result = preprocessWithCanvas(input.image)]
                 ELSE [output EXCEPT !.pc = "rejected"]
    /\ PreprocessUnchanged

PreprocessNext == PreprocessCall \/ OpenCVSettles \/ ImageLoadsForOpenCV \/ ImageLoadsForCanvas
SpecPreprocess == PreprocessInit /\ [][PreprocessNext]_vars

(***************************************************************************)
(* runOCREngine of scripts/ocrEngine.js (183-310) and the engine           *)
(* configuration it shares between calls.  input holds the environment:    *)
(* the engine preference persisted in localStorage, what becomes of the    *)
(* PP-OCR assets and of the Tesseract script, the confidence Tesseract     *)
(* reports for each data URL, the image, and whether the caller passes a   *)
(* progress callback.  output holds ocrConfig, ppocrInitialized and the    *)
(* call in flight; recognized, failed and retried are history: the         *)
(* arguments of the Tesseract.recognize calls of the call, whether a       *)
(* PP-OCR attempt has failed since the last reset, and whether one was     *)
(* started after that.                                                     *)
(***************************************************************************)
Undefined == "undefined"

FallbackEngine == "tesseract"   \* ocrConfig.fallbackEngine

NoRecognition == [text |-> "", confidence |-> 0, engineUsed |-> "none", variantType |-> "none"]

\* The variants of imageInput.variants that have a non-empty data URL, with
\* their type or 'variant' (229-235).
RECURSIVE ListedVariants(_)
ListedVariants(listed) ==
    IF listed = <<>> THEN <<>>
    ELSE LET variant == Head(listed)
             rest == ListedVariants(Tail(listed))
         IN  IF variant.dataUrl # Undefined /\ variant.dataUrl # ""
             THEN <<[type |-> IF variant.type = Undefined THEN "variant" ELSE variant.type,
                     dataUrl |-> variant.dataUrl]>> \o rest
             ELSE rest

\* variants.filter(...) with the Set seen (252-259): the first variant of
\* every data URL.
\* A variant that keeps every variant, whatever its data URL.
KeepEveryVariant(variants, seen) == variants

RECURSIVE FirstOfEachUrl(_, _)
FirstOfEachUrl(variants, seen) ==
    IF variants = <<>> THEN <<>>
    ELSE IF Head(variants).dataUrl \in seen THEN FirstOfEachUrl(Tail(variants), seen)
    ELSE <<Head(variants)>> \o FirstOfEachUrl(Tail(variants), seen \cup {Head(variants).dataUrl})

\* normalizePreprocessedVariants (220-260); <<>> stands for the error it
\* throws when there is no image data.
normalizePreprocessedVariants(imageInput) ==
    LET listed == ListedVariants(imageInput.variants)
        pair == (IF imageInput.clean # Undefined
                 THEN <<[type |-> "clean", dataUrl |-> imageInput.clean]>> ELSE <<>>)
                \o (IF imageInput.thresholded # Undefined
                    THEN <<[type |-> "thresholded", dataUrl |-> imageInput.thresholded]>>
                    ELSE <<>>)
        single == IF imageInput.dataUrl # Undefined
                  THEN <<[type |-> "processed", dataUrl |-> imageInput.dataUrl]>> ELSE <<>>
        variants == IF imageInput.string # Undefined
                    THEN <<[type |-> "original", dataUrl |-> imageInput.string]>>
                    ELSE IF listed # <<>> THEN listed
                    ELSE IF pair # <<>> THEN pair
                    ELSE single
    IN  FirstOfEachUrl(variants, {})

\* Math.round(n / d) for n >= 0 and d > 0.
RoundRatio(n, d) == (2 * n + d) \div (2 * d)

\* Math.round(base), with base = share * index and share = 100 / count
StartProgress(index, count) == RoundRatio(100 * index, count)

\* Math.min(100, Math.round(base + (percentage / 100) * share))
VariantProgress(index, count, percentage) ==
    Min2(100, RoundRatio(100 * 100 * index + 100 * percentage, 100 * count))

\* Math.round(Math.min(100, base + share))
EndProgress(index, count) == RoundRatio(Min2(100 * count, 100 * index + 100), count)

\* The for loop of runOCREngine from its test on: the call returns after the
\* last variant, or reports the start of the next one and enters
\* recognizeWithConfiguredEngines with the engine current at that moment.
NextVariant(o) ==
    IF o.index >= Len(o.variants)
    THEN [o EXCEPT !.pc = "done", !.result = o.bestResult]
    ELSE LET engine == o.ocrConfig.currentEngine
         IN  [o EXCEPT !.pc = engine, !.engine = engine, !.attempted = <<engine>>,
                       !.postLoop = FALSE, !.events = 0,
                       !.retried = @ \/ (engine = "ppocr" /\ o.failed),
                       !.progress = IF input.callback
                                    THEN Append(@, StartProgress(o.index, Len(o.variants)))
                                    ELSE @]

MaxVariants == 2      \* entries of imageInput.variants
MaxOcrCalls == 2      \* runOCREngine calls of one page
MaxEvents == 1        \* progress messages of one recognition

VariantKinds ==
    {[type |-> "clean", dataUrl |-> "A"], [type |-> "thresholded", dataUrl |-> "B"],
     [type |-> "thresholded", dataUrl |-> "A"], [type |-> Undefined, dataUrl |-> "B"],
     [type |-> "clean", dataUrl |-> ""]}

ImageInputs ==
    {[string |-> "A", variants |-> <<>>, clean |-> Undefined, thresholded |-> Undefined,
      dataUrl |-> Undefined]}
    \cup {[string |-> Undefined, variants |-> variants, clean |-> "A", thresholded |-> "B",
           dataUrl |-> Undefined] : variants \in Pages(VariantKinds, MaxVariants)}
    \cup {[string |-> Undefined, variants |-> <<>>, clean |-> clean, thresholded |-> thresholded,
           dataUrl |-> dataUrl] :
            clean \in {Undefined, "A"}, thresholded \in {Undefined, "A", "B"},
            dataUrl \in {Undefined, "B"}}

OcrEngineInit ==
    /\ \E preferred \in {"tesseract", "ppocr"}, assets \in {"missing", "loaded"},
          tesseractLoads \in BOOLEAN, callback \in BOOLEAN,
          confidence \in [{"A", "B"} -> {50, 90}], imageInput \in ImageInputs :
            input = [preferred |-> preferred, assets |-> assets,
                     tesseractLoads |-> tesseractLoads, callback |-> callback,
                     confidence |-> confidence, imageInput |-> imageInput]
    /\ output = [ocrConfig |-> [engine |-> input.preferred, currentEngine |-> input.preferred],
                 ppocrInitialized |-> FALSE, pc |-> "idle", calls |-> 0,
                 variants |-> <<>>, index |-> 0,
                 engine |-> "none", attempted |-> <<>>, postLoop |-> FALSE, events |-> 0,
                 bestResult |-> NoRecognition, progress |-> <<>>, result |-> NoRecognition,
                 recognized |-> <<>>, failed |-> FALSE, retried |-> FALSE]
    /\ SessionInit(FullStub)

OcrEngineUnchanged == UNCHANGED <<state, tesseract, recognitionContext, run, input>>

\* runOCREngine(imageInput, label, progressCallback) is called when no call
\* is in flight (the caller awaits each image in turn); the calls of a
\* session are given the same image.
RunOCREngine ==
    /\ output.pc \in {"idle", "done", "rejected"}
    /\ output.calls < MaxOcrCalls
    /\ LET variants == normalizePreprocessedVariants(input.imageInput)
            started == [output EXCEPT !.calls = @ + 1,
                                      !.variants = variants, !.index = 0,
                                      !.bestResult = NoRecognition, !.result = NoRecognition,
                                      !.progress = <<>>, !.recognized = <<>>]
        IN  output' = IF variants = <<>> THEN [started EXCEPT !.pc = "rejected"]
                      ELSE NextVariant(started)
    /\ OcrEngineUnchanged

\* A variant that forgets the fallback: after a failed PP-OCR attempt the
\* current engine stays as it was.
AfterPPOCRFailureKeepEngine(o) == o.ocrConfig.currentEngine

\* ocrConfig.currentEngine = engine, with engine = ocrConfig.fallbackEngine (279-280)
AfterPPOCRFailure(o) == FallbackEngine

\* The PP-OCR attempt fails (268-281): ensurePPOCREngine throws for missing
\* assets, and runPPOCRInference throws in any case.  The
\* catch switches to the fallback engine, which the loop tries when it has
\* not been attempted, and which is run after the loop otherwise.
PPOCRFails ==
    /\ output.pc = "ppocr"
    /\ LET engine == AfterPPOCRFailure(output)
           again == \E i \in DOMAIN output.attempted : output.attempted[i] = engine
       IN  output' = [output EXCEPT
                !.ppocrInitialized = @ \/ input.assets = "loaded",
                !.ocrConfig.currentEngine = engine,
                !.engine = engine,
                !.failed = TRUE,
                !.attempted = IF again THEN @ ELSE Append(@, engine),
                !.postLoop = again,
                !.retried = @ \/ (~again /\ engine = "ppocr"),
                !.pc = IF again \/ engine # "ppocr" THEN "tesseract" ELSE "ppocr"]
    /\ OcrEngineUnchanged

\* The logger of recognizeWithTesseract (298-303) reports progress.
TesseractProgress ==
    /\ output.pc = "tesseract"
    /\ input.tesseractLoads
    /\ output.events < MaxEvents
    /\ \E percentage \in {50} :
        output' = [output EXCEPT
            !.events = @ + 1,
            !.progress = IF input.callback
                         THEN Append(@, VariantProgress(output.index, Len(output.variants),
                                                        percentage))
                         ELSE @]
    /\ OcrEngineUnchanged

\* recognizeWithTesseract settles (294-310): the script cannot be loaded and
\* the call rejects, or Tesseract.recognize answers, the end of the variant
\* is reported, the best result is kept (205-215) and the loop goes on.
TesseractSettles ==
    /\ output.pc = "tesseract"
    /\ LET dataUrl == output.variants[output.index + 1].dataUrl
           candidate == [text |-> dataUrl, confidence |-> input.confidence[dataUrl],
                         engineUsed |-> "tesseract",
                         variantType |-> output.variants[output.index + 1].type]
           better == output.bestResult = NoRecognition
                        \/ candidate.confidence > output.bestResult.confidence
       IN  output' = IF ~input.tesseractLoads THEN [output EXCEPT !.pc = "rejected"]
                     ELSE NextVariant([output EXCEPT
                            !.recognized = Append(@, [dataUrl |-> dataUrl, lang |-> "eng",
                                                      logger |-> TRUE]),
                            !.ocrConfig.currentEngine = IF output.postLoop THEN "tesseract" ELSE @,
                            !.progress = IF input.callback
                                         THEN Append(@, EndProgress(output.index,
                                                                    Len(output.variants)))
                                         ELSE @,
                            !.bestResult = IF better THEN candidate ELSE @,
                            !.index = @ + 1])
    /\ OcrEngineUnchanged

\* resetOcrEngine (43-47), called when the upload modal is reset.
ResetOcrEngine ==
    /\ output.failed \/ output.ocrConfig.currentEngine # input.preferred
    /\ output' = [output EXCEPT !.ocrConfig = [engine |-> input.preferred,
                                               currentEngine |-> input.preferred],
                                !.failed = FALSE]
    /\ OcrEngineUnchanged

OcrEngineNext ==
    RunOCREngine \/ PPOCRFails \/ TesseractProgress \/ TesseractSettles \/ ResetOcrEngine
SpecOcrEngine == OcrEngineInit /\ [][OcrEngineNext]_vars

(***************************************************************************)
(* extractPhone (js/ocr.js 1398-1422) on the words of a phone pass.        *)
(***************************************************************************)
MaxWords == 3   \* the words of the longest phone-pass result

\* Word texts the phone whitelist '+0123456789()- ' allows: groups of
\* digits, a country code, and words of punctuation only.
PhoneWordTexts ==
    {<<"5", "5", "5">>, <<"1", "2", "3", "4">>, <<"(", "5", "5", "5", ")">>, <<"+", "1">>,
     <<"+">>, <<"(">>, <<")">>, <<"-", "-", "-", "-", "-", "-", "-">>}

RECURSIVE WordLists(_, _)
\* The word sequences of at most n words with the given texts.
WordLists(texts, n) ==
    IF n = 0 THEN {<<>>}
    ELSE LET shorter == WordLists(texts, n - 1)
         IN  shorter \cup {Append(ws, Word(t, 60 + 10 * Len(ws), Box(10 * Len(ws), 50, 10 * Len(ws) + 8, 60))) :
                              ws \in shorter, t \in texts}

PhoneWordsInit ==
    /\ input \in WordLists(PhoneWordTexts, MaxWords)
    /\ output = <<>>
    /\ SessionInit(FullStub)

ExtractPhone ==
    /\ output = <<>>
    /\ output' = <<extractPhone(input)>>
    /\ UNCHANGED <<state, tesseract, recognitionContext, run, input>>

SpecPhoneWords == PhoneWordsInit /\ [][ExtractPhone]_vars

(***************************************************************************)
(* sauvolaBinarize and its summed-area tables (js/ocr.js 528-578).  The    *)
(* tables hold integers far below 2^53, so their Float64 sums are exact.   *)
(***************************************************************************)
RECURSIVE RowPrefix(_, _, _, _, _)
\* rowsum (rowsumSq when squared) of table row y after column x: the sum of
\* gray over the image row y - 1, columns 0..x-1.
RowPrefix(gray, width, y, x, squared) ==
    IF x = 0 THEN 0
    ELSE LET v == gray[(y - 1) * width + (x - 1)]
         IN  RowPrefix(gray, width, y, x - 1, squared) + (IF squared THEN v * v ELSE v)

RECURSIVE IntegralAt(_, _, _, _, _)
\* integral[idx] = integral[idx - W] + rowsum, row 0 and column 0 being 0.
IntegralAt(gray, width, y, x, squared) ==
    IF y = 0 \/ x = 0 THEN 0
    ELSE IntegralAt(gray, width, y - 1, x, squared) + RowPrefix(gray, width, y, x, squared)

computeIntegralImages(gray, width, height) ==
    LET W == width + 1
        H == height + 1
    IN  [integral |-> [idx \in 0..(W * H - 1) |->
                          IntegralAt(gray, width, idx \div W, idx % W, FALSE)],
         integralSq |-> [idx \in 0..(W * H - 1) |->
                          IntegralAt(gray, width, idx \div W, idx % W, TRUE)],
         W |-> W, H |-> H]

\* r = Math.max(1, (window | 0) >> 1)
WindowRadius(window) == Max2(1, window \div 2)

\* The clamped window of pixel (x, y).
WindowOf(width, height, window, x, y) ==
    LET r == WindowRadius(window)
    IN  [x0 |-> Max2(0, x - r), x1 |-> Min2(width - 1, x + r),
         y0 |-> Max2(0, y - r), y1 |-> Min2(height - 1, y + r)]

\* The loop of sauvolaBinarize up to the statistics of each pixel's window:
\* area, sum and sumSq, from which mean, variance and the threshold follow.
sauvolaBinarize(gray, width, height, window) ==
    LET tables == computeIntegralImages(gray, width, height)
        W == tables.W
    IN  [i \in 0..(width * height - 1) |->
            LET win == WindowOf(width, height, window, i % width, i \div width)
                iy0 == win.y0 + 1
                iy1 == win.y1 + 1
                ix0 == win.x0 + 1
                ix1 == win.x1 + 1
                A == tables.integral[iy0 * W + ix0]
                B == tables.integral[iy0 * W + ix1]
                C == tables.integral[iy1 * W + ix0]
                D == tables.integral[iy1 * W + ix1]
                AS == tables.integralSq[iy0 * W + ix0]
                BS == tables.integralSq[iy0 * W + ix1]
                CS == tables.integralSq[iy1 * W + ix0]
                DS == tables.integralSq[iy1 * W + ix1]
            IN  [area |-> (win.x1 - win.x0 + 1) * (win.y1 - win.y0 + 1),
                 sum |-> D - B - C + A,
                 sumSq |-> DS - BS - CS + AS]]

MaxGrayWidth == 3    \* the width of the widest gray image
MaxGrayHeight == 2   \* the height of the highest gray image

GrayLevels == {40, 200}
Windows == {3, 33}

SauvolaInit ==
    /\ \E width \in 1..MaxGrayWidth, height \in 1..MaxGrayHeight, window \in Windows :
         \E gray \in [0..(width * height - 1) -> GrayLevels] :
            input = [gray |-> gray, width |-> width, height |-> height, window |-> window]
    /\ output = <<>>
    /\ SessionInit(FullStub)

SauvolaBinarize ==
    /\ output = <<>>
    /\ output' = <<sauvolaBinarize(input.gray, input.width, input.height, input.window)>>
    /\ UNCHANGED <<state, tesseract, recognitionContext, run, input>>

SpecSauvola == SauvolaInit /\ [][SauvolaBinarize]_vars

(***************************************************************************)
(* The end of the mask clean-up of preprocessImage (js/ocr.js 398-404):    *)
(* binaryMajority3x3 (621-637), convolveGray (461-480) and                 *)
(* applyUnsharpBinary (511-523).  An amount is a fraction <<n, d>>, d > 0. *)
(***************************************************************************)
GaussianKernel == <<1, 2, 1, 2, 4, 2, 1, 2, 1>>

\* acc of convolveGray for pixel (x, y) with a 3 x 3 kernel.
KernelSum(src, width, height, kernel, x, y) ==
    LET at(kx, ky) == src[Min2(height - 1, Max2(0, y + ky)) * width
                                + Min2(width - 1, Max2(0, x + kx))]
                         * kernel[(ky + 1) * 3 + (kx + 1) + 1]
    IN  at(0 - 1, 0 - 1) + at(0, 0 - 1) + at(1, 0 - 1)
          + at(0 - 1, 0) + at(0, 0) + at(1, 0)
          + at(0 - 1, 1) + at(0, 1) + at(1, 1)

\* Math.min(255, Math.max(0, Math.round(acc / divisor))); Math.round takes
\* a half upwards.
convolveGray(src, width, height, kernel, divisor) ==
    [i \in 0..(width * height - 1) |->
        Min2(255, Max2(0, (2 * KernelSum(src, width, height, kernel, i % width, i \div width)
                              + divisor) \div (2 * divisor)))]

\* A variant that moves the pixel towards the blurred value.
SharpenedTowardsBlur(value, blurred, amount) ==
    amount[2] * value - amount[1] * (value - blurred) > 128 * amount[2]

\* sharpened > 128, with sharpened = input[i] + amount * (input[i] - blurred[i])
SharpenedAbove128(value, blurred, amount) ==
    amount[2] * value + amount[1] * (value - blurred) > 128 * amount[2]

applyUnsharpBinary(src, width, height, amount) ==
    LET blurred == Filled(convolveGray(src, width, height, GaussianKernel, 16))
    IN  [i \in 0..(width * height - 1) |->
            IF SharpenedAbove128(src[i], blurred[i], amount) THEN 255 ELSE 0]

\* sum >= 5 of the 9 clamped neighbours equal to 255
binaryMajority3x3(src, width, height) ==
    [i \in 0..(width * height - 1) |->
        LET ones(kx, ky) ==
                IF src[Min2(height - 1, Max2(0, (i \div width) + ky)) * width
                            + Min2(width - 1, Max2(0, (i % width) + kx))] = 255
                THEN 1 ELSE 0
            sum == ones(0 - 1, 0 - 1) + ones(0, 0 - 1) + ones(1, 0 - 1)
                     + ones(0 - 1, 0) + ones(0, 0) + ones(1, 0)
                     + ones(0 - 1, 1) + ones(0, 1) + ones(1, 1)
        IN  IF sum >= 5 THEN 255 ELSE 0]

MaxSharpWidth == 3    \* the width of the widest mask sharpened
MaxSharpHeight == 2   \* the height of the highest mask sharpened

\* 0, the 0.25 of preprocessImage, the default 0.4, and an aggressive 3.
Amounts == {<<0, 1>>, <<1, 4>>, <<2, 5>>, <<3, 1>>}

SharpenInit ==
    /\ \E width \in 1..MaxSharpWidth, height \in 1..MaxSharpHeight, amount \in Amounts :
         \E binary \in [0..(width * height - 1) -> {0, 255}] :
            input = [binary |-> binary, width |-> width, height |-> height,
                     amount |-> amount]
    /\ output = <<>>
    /\ SessionInit(FullStub)

\* applyUnsharpBinary on a mask, with an amount.
ApplyUnsharpBinary ==
    /\ output = <<>>
    /\ output' = <<[step |-> "sharpen", before |-> input.binary,
                    after |-> applyUnsharpBinary(input.binary, input.width, input.height,
                                                 input.amount)]>>
    /\ UNCHANGED <<state, tesseract, recognitionContext, run, input>>

\* The clean-up of the combined mask: morph-open, majority-3x3, sharpen-0.25.
CleanUpMask ==
    /\ output = <<>>
    /\ LET opened == Filled(morphologyOpen(input.binary, input.width, input.height))
           majority == Filled(binaryMajority3x3(opened, input.width, input.height))
           sharpened == applyUnsharpBinary(majority, input.width, input.height, <<1, 4>>)
       IN  output' = <<[step |-> "sharpen-0.25", before |-> majority, after |-> sharpened]>>
    /\ UNCHANGED <<state, tesseract, recognitionContext, run, input>>

SpecSharpen == SharpenInit /\ [][ApplyUnsharpBinary \/ CleanUpMask]_vars

(***************************************************************************)
(* The OCR page: the file input's change handler (js/ocr.js 129-169) and   *)
(* the Process button's click handler (1497-1521).  output holds the page: *)
(* the button's disabled flag, state.image (0 is null, otherwise the       *)
(* number of the Image), the Images still loading, and the extractCardData *)
(* calls of the click handler that have not settled.  The page's markup is *)
(* not part of the sources, so the button starts enabled or disabled.      *)
(***************************************************************************)
MaxChanges == 3   \* change events of the file input
MaxClicks == 2    \* clicks that reach extractCardData

PageInit ==
    /\ input \in [disabledAttribute : BOOLEAN]
    /\ output = [disabled |-> input.disabledAttribute, image |-> 0, objectUrl |-> 0,
                 loading |-> {}, changes |-> 0, inFlight |-> 0, started |-> 0]
    /\ SessionInit(FullStub)

PageUnchanged == UNCHANGED <<state, tesseract, recognitionContext, run, input>>

\* 'change' with a file selected or with none: the button is enabled iff
\* there is a file; with a file a new Image starts loading from its URL.
ImageInputChange ==
    /\ output.changes < MaxChanges
    /\ \E file \in BOOLEAN :
         LET cleared == [output EXCEPT !.changes = @ + 1, !.disabled = ~file,
                                       !.objectUrl = 0]
         IN  output' = IF ~file THEN [cleared EXCEPT !.image = 0]
                       ELSE [cleared EXCEPT !.objectUrl = output.changes + 1,
                                            !.loading = @ \cup {output.changes + 1}]
    /\ PageUnchanged

\* img.onload
ImageOnLoad ==
    /\ \E img \in output.loading :
         output' = [output EXCEPT !.image = img, !.loading = @ \ {img}]
    /\ PageUnchanged

\* img.onerror
ImageOnError ==
    /\ \E img \in output.loading :
         output' = [output EXCEPT !.disabled = TRUE, !.loading = @ \ {img}]
    /\ PageUnchanged

\* The click handler up to await extractCardData(...).
ProcessClick(page) ==
    IF page.image = 0 THEN page
    ELSE [page EXCEPT !.disabled = TRUE, !.inFlight = @ + 1, !.started = @ + 1]

\* 'click': a disabled button receives none.
ProcessBtnClick ==
    /\ ~output.disabled
    /\ output.started < MaxClicks
    /\ output' = ProcessClick(output)
    /\ PageUnchanged

\* extractCardData resolves or rejects: try, catch and finally run to the end.
ExtractionSettles ==
    /\ output.inFlight > 0
    /\ output' = [output EXCEPT !.inFlight = @ - 1, !.disabled = FALSE]
    /\ PageUnchanged

PageNext ==
    ImageInputChange \/ ImageOnLoad \/ ImageOnError \/ ProcessBtnClick \/ ExtractionSettles

SpecPage == PageInit /\ [][PageNext]_vars

(***************************************************************************)
(* Properties.                                                             *)
(***************************************************************************)
Blocking(logs) == \E i \in DOMAIN logs : logs[i] \in {LogSmall, LogLine}
LastAttempt == Len(attemptSettings) - 1

\* C1, first part: a call moves to the next attempt configuration only from
\* an attempt whose logs hold a blocking warning and that is not the last.
C1_RetryOnlyOnWarning ==
    \A r \in Requests :
        (InFlight(r) /\ run'[r].attemptIndex # run[r].attemptIndex)
            => /\ run'[r].attemptIndex = run[r].attemptIndex + 1
               /\ Blocking(run[r].logs)
               /\ run[r].attemptIndex < LastAttempt

\* C1, second part: the canonical general result is that of the first attempt
\* without a blocking warning, or else of the last attempt.
C1_CanonicalAttempt ==
    \A r \in Requests :
        run[r].finalGeneral # NoResult
            => LET h == run[r].attemptHistory
                   n == Len(h)
               IN  /\ n = run[r].attemptIndex + 1
                   /\ \A i \in 1..(n - 1) : Blocking(h[i].warnings) /\ ~h[i].success
                   /\ h[n].success
                   /\ (~Blocking(h[n].warnings) \/ n = Len(attemptSettings))
                   /\ run[r].finalPreprocess = preprocessImage(attemptSettings[n].targetWidth)
                   /\ run[r].generalPSMUsed = attemptSettings[n].psm

\* C1, third part: the evaluation of the warnings never ends a call in
\* failure; a call fails only waiting for the worker or for a language.
C1_WarningsNeverFail ==
    \A r \in Requests :
        (run'[r].pc = "failed" /\ run[r].pc # "failed")
            => run[r].pc \in {"ensureWorker", "loadLanguage"}

\* C1: in the general pass the next attempt configuration is started only on a
\* blocking warning of an attempt that is not the last; the first attempt
\* without a blocking warning, or else the last, becomes the canonical general
\* result; blocking warnings alone never make the extraction fail.
C1_GeneralPassRetry ==
    /\ [][C1_RetryOnlyOnWarning /\ C1_WarningsNeverFail]_vars
    /\ []C1_CanonicalAttempt

\* A call has completed whose every attempt warned: the last was accepted.
C1_Witness ==
    \E r \in Requests :
        /\ run[r].pc = "done"
        /\ Len(run[r].attemptHistory) = Len(attemptSettings)
        /\ Blocking(run[r].attemptHistory[Len(attemptSettings)].warnings)

\* C2 as stated: whatever the recognized text, no attempt is recognized more
\* than twice.
C2_AtMostTwoRecognitions == \A r \in Requests : run[r].recognitions <= 2

\* The step that follows the loading of a language: the language is recorded
\* and the same attempt configuration is set up again.
C2_RerunSameAttempt ==
    \A r \in Requests :
        (run[r].pc = "initialize" /\ run'[r].pc # "initialize")
            => /\ run'[r].pc = "general_setParameters"
               /\ run'[r].attemptIndex = run[r].attemptIndex
               /\ InSeq(run[r].detectedLanguage, state'.loadedLanguages)
               /\ Len(state'.loadedLanguages) = Len(state.loadedLanguages) + 1

\* C2, amended: every language load is followed by one rerun of the same
\* attempt configuration, the attempt index unchanged; an attempt is
\* recognized at most once more than languages have been loaded, hence at most
\* five times.
C2_OneRerunPerLanguage ==
    /\ [][C2_RerunSameAttempt]_vars
    /\ [](\A r \in Requests :
            /\ run[r].recognitions <= Len(state.loadedLanguages)
            /\ run[r].recognitions <= 1 + Len(EXTRA_LANGUAGE_MAP))

\* An attempt recognized a third time, after two languages were loaded for it.
C2_Witness ==
    \E r \in Requests : run[r].recognitions = 3 /\ Len(state.loadedLanguages) = 3

\* C3: access to the shared worker is serialized: never two recognize calls
\* outstanding, and every recognition runs with the parameters that its own
\* call set.
C3_SerializedAccess ==
    /\ Cardinality(tesseract.jobs) <= 1
    /\ \A j \in tesseract.jobs : j.setBy = j.by

\* C4: the worker is created at most once in a session, and every
\* recognition is posted to that one worker.
C4_SingleWorker ==
    /\ tesseract.created <= 1
    /\ \A j \in tesseract.jobs : j.worker = 1 /\ j.worker = state.worker
    /\ \A r \in Requests : run[r].worker \in {0, state.worker}

\* Two calls have recognitions outstanding at once, on the same worker.
C4_Witness ==
    \E j, k \in tesseract.jobs : j.by # k.by /\ j.worker = k.worker

Fields == {"name", "email", "phone"}

SameField(a, b) == a.value = b.value /\ a.confidence = b.confidence

\* C5: a refinement changes a field's value and confidence only when the
\* refined value, after postExtract and postProcess, is non-empty and the
\* refined mean confidence is strictly greater than the original; otherwise
\* both stay as they were, so the confidence never decreases.
C5_RefineOnlyImproves ==
    \A r \in Requests : \A f \in Fields :
        LET refined == run[r].refinedWith[f]
            before == run[r].extracted[f]
            after == FieldOf(run[r], f)
            better == /\ Truthy(RefinedValue(f, refined.text))
                      /\ ConfGt(meanConfidence(refined.words), before.confidence)
        IN  refined # NoResult
                => /\ ~SameField(after, before) => better
                   /\ ~better => after = before
                   /\ ConfGe(after.confidence, before.confidence)

\* A refinement was accepted, and another was discarded.
C5_Witness ==
    \E r \in Requests : \E f, g \in Fields :
        /\ run[r].refinedWith[f] # NoResult
        /\ ~SameField(FieldOf(run[r], f), run[r].extracted[f])
        /\ run[r].refinedWith[g] \notin {NoResult, EmptyPage}
        /\ FieldOf(run[r], g) = run[r].extracted[g]

NoRunAbove(arr, n, thresh, minRun) ==
    ~\E i \in 0..(n - minRun) : \A k \in i..(i + minRun - 1) : arr[k] > thresh

\* C7: a mask without a run of minRun rows, or without such a run of columns,
\* above the density threshold makes computeAutoCropBox return null.
C7_NullWithoutRun ==
    output # <<>>
        => LET w == input.width
               h == input.height
               o == DefaultCropOpts
               noRows == NoRunAbove(rowSum(input.binary, w, h), h,
                                    Max2(1, (w * o.minFrac) \div 100), o.minRun)
               noCols == NoRunAbove(colSum(input.binary, w, h), w,
                                    Max2(1, (h * o.minFrac) \div 100), o.minRun)
           IN  (noRows \/ noCols) => output[1] = NoCrop

\* C8: normalizeEmailCandidate is idempotent.
C8_NormalizeIdempotent == Len(output) = 2 => output[2] = output[1]

\* C9: a failed load of an auxiliary language is never propagated: no call
\* fails while a language it detected is being loaded.
C9_LanguageFailureNotFatal ==
    \A r \in Requests : ~(run[r].pc = "failed" /\ run[r].detectedLanguage # Null)

\* C10: in the result of every call, each field without a value is
\* {value: null, confidence: 0}, every non-null value is a non-empty string,
\* and a field the extractors found no value for stays null.
C10_FieldShape ==
    \A r \in Requests :
        run[r].pc = "done"
            => /\ Len(run[r].returned) = 1
               /\ \A f \in Fields :
                    LET field == run[r].returned[1].fields[f]
                    IN  /\ field.value = NullText => field.confidence = 0
                        /\ field.value # NullText => field.value # <<>>
                        /\ field.confidence \in 0..10000
                        /\ run[r].extracted[f].value = NullText
                              => field.value = NullText
                        /\ field.value = FieldOf(run[r], f).value

\* A result with a null field (the phone: seven dashes were read) beside a
\* field with a value.
C10_Witness ==
    \E r \in Requests :
        /\ run[r].pc = "done"
        /\ run[r].returned[1].fields.phone = [value |-> NullText, confidence |-> 0]
        /\ run[r].returned[1].fields.name.value # NullText
        /\ run[r].returned[1].fields.name.confidence > 0

\* The candidate of one line alone: what the loop body of
\* extractEmailFromLines yields when any confidence beats the best so far.
LineMatch(line) == EmailLineStep([NoField EXCEPT !.confidence = <<0 - 1, 1>>], line)

MatchingLines(lines) == {i \in DOMAIN lines : LineMatch(lines[i]).value # NullText}

\* C11: extractEmailFromLines returns null only when no line yields a match;
\* otherwise it returns the candidate of the earliest line whose gated-word
\* mean confidence is maximal among the matching lines.
C11_KeepsBestMatch ==
    output # <<>>
        => LET matches == MatchingLines(input)
           IN  IF matches = {} THEN output[1].value = NullText
               ELSE \E i \in matches :
                      /\ \A k \in matches :
                            ConfGe(LineMatch(input[i]).confidence, LineMatch(input[k]).confidence)
                      /\ \A k \in matches :
                            k < i => ConfGt(LineMatch(input[i]).confidence,
                                            LineMatch(input[k]).confidence)
                      /\ output[1].value = LineMatch(input[i]).value
                      /\ output[1].confidence = LineMatch(input[i]).confidence

\* A line a name may be taken from: no digit, '@' or parenthesis, at least two
\* tokens, the first two of them capitalized words.
EligibleNameLine(line) ==
    LET tokens == Tokens(line.text)
    IN  /\ ~\E i \in DOMAIN line.text : line.text[i] \in Digit \cup {"@", "(", ")"}
        /\ Len(tokens) >= 2
        /\ uppercaseToken(tokens[1]) /\ uppercaseToken(tokens[2])

\* C12: extractName returns the text of an eligible line only, whatever the
\* confidences, and among the eligible lines one of the highest mean word
\* confidence; of SARAH JOHNSON (92) and 555 PARK AVE (95) it returns the first.
C12_NameFromEligibleLine ==
    output # <<>>
        => LET eligible == {i \in DOMAIN input : EligibleNameLine(input[i])}
           IN  /\ output[1].value # NullText
                    => \E i \in eligible : output[1].value = trim(input[i].text)
               /\ eligible # {}
                    => \E i \in eligible :
                         /\ output[1].value = trim(input[i].text)
                         /\ \A k \in eligible : ConfGe(meanConfidence(input[i].words),
                                                       meanConfidence(input[k].words))
               /\ input = <<SarahLine, ParkLine>> => output[1].value = SarahLine.text

\* C13: normalizePhoneValue returns null for a text without digit or '+';
\* otherwise the digits of the text in their order, after a single '+' exactly
\* when the first digit-or-plus character of the text is '+'.  The two
\* examples give +15551234567 and 5551234567, and a non-null result is
\* returned unchanged when normalized again.
C13_PhoneNormalization ==
    output # <<>>
        => LET kept == SelectSeq(input, LAMBDA ch : ch \in Digit \cup {"+"})
               digits == SelectSeq(input, LAMBDA ch : ch \in Digit)
           IN  /\ kept = <<>> => output[1] = NullText
               /\ kept # <<>>
                    => output[1] = (IF Head(kept) = "+" THEN <<"+">> ELSE <<>>) \o digits
               /\ input = PhoneExamplePlus
                    => output[1] = <<"+", "1", "5", "5", "5", "1", "2", "3", "4", "5", "6", "7">>
               /\ input = PhoneExampleDots
                    => output[1] = <<"5", "5", "5", "1", "2", "3", "4", "5", "6", "7">>
               /\ Len(output) = 2 => output[2] = output[1]

\* The first example has been normalized, and its result normalized again.
C13_Witness ==
    /\ Len(output) = 2
    /\ input = PhoneExamplePlus
    /\ Head(output[1]) = "+"

\* Every edge of the box lies within tol pixels of that edge of the rectangle.
BoxNear(box, rect, tol) ==
    LET Near(a, b) == a - b <= tol /\ b - a <= tol
    IN  /\ box # NoCrop
        /\ Near(box.x, rect.x0) /\ Near(box.y, rect.y0)
        /\ Near(box.x + box.w - 1, rect.x1) /\ Near(box.y + box.h - 1, rect.y1)

\* C14: on a dark mask with one centered bright rectangle, each of
\* computeAutoCropBoxCC, computeAutoCropBoxSmart and computeAutoCropBox
\* returns a box whose edges are within 2 * pad = 16 pixels of the rectangle's.
C14_BoxNearRectangle ==
    /\ output.cc # NotRun => BoxNear(output.cc, input.rect, 2 * DefaultCCOpts.pad)
    /\ output.smart # NotRun => BoxNear(output.smart, input.rect, 2 * DefaultCropOpts.pad)
    /\ output.plain # NotRun => BoxNear(output.plain, input.rect, 2 * DefaultCropOpts.pad)

Foreground(mask) == {i \in DOMAIN mask : mask[i] = 255}

\* C15: every pixel that is 255 after morphologyOpen is 255 in the input, on
\* the border as elsewhere, so the foreground pixel count never increases.
C15_OpenNeverAddsForeground ==
    output # <<>>
        => /\ DOMAIN output[1] = DOMAIN input.binary
           /\ Foreground(output[1]) \subseteq Foreground(input.binary)
           /\ Cardinality(Foreground(output[1])) <= Cardinality(Foreground(input.binary))

\* A 3x3 mask was opened: a block in its corner survived, a speck was removed.
C15_Witness ==
    /\ output # <<>>
    /\ input.width = 3 /\ input.height = 3
    /\ output[1][0] = 255
    /\ \E i \in DOMAIN input.binary : input.binary[i] = 255 /\ output[1][i] = 0

\* The between-class variance of threshold t, or -1 when a class is empty.
VarianceAt(values, t) ==
    LET below == {k \in DOMAIN values : values[k] <= t}
        above == DOMAIN values \ below
        SumOver(S) == SumValues([k \in 1..Len(values) |-> IF k \in S THEN values[k] ELSE 0])
    IN  IF below = {} \/ above = {} THEN <<0 - 1, 1>>
        ELSE Between(Cardinality(below), Cardinality(above), SumOver(below), SumOver(above))

\* The smallest threshold of the largest variance, 0 when no threshold
\* leaves both classes non-empty.
SmallestMaximizer(values) ==
    LET variance == [t \in 0..255 |-> VarianceAt(values, t)]
        valid == {t \in 0..255 : variance[t][1] >= 0}
        top == CHOOSE t \in valid : \A u \in valid : ConfGe(variance[t], variance[u])
    IN  IF valid = {} THEN 0
        ELSE CHOOSE t \in valid :
                /\ ConfEq(variance[t], variance[top])
                /\ \A u \in valid : ConfEq(variance[u], variance[top]) => t <= u

\* C16: otsuThreshold returns an integer of 0..255, the smallest threshold
\* that maximizes the between-class variance among those leaving both classes
\* non-empty (0 when there is none); for an image of exactly two intensities
\* a < b it returns a.
C16_SmallestMaximizer ==
    output # <<>>
        => LET levels == {input[k] : k \in DOMAIN input}
           IN  /\ output[1] \in 0..255
               /\ output[1] = SmallestMaximizer(input)
               /\ Cardinality(levels) = 2
                    => output[1] = CHOOSE a \in levels : \A b \in levels : a <= b

\* C17: the manual crop rectangle of preprocessImage has positive width and
\* height and lies within the image, for every image size and every
\* combination of crop percentages.
C17_CropRectWithinImage ==
    output # <<>>
        => /\ output[1].width > 0 /\ output[1].height > 0
           /\ output[1].x >= 0 /\ output[1].y >= 0
           /\ output[1].x + output[1].width <= input.naturalWidth
           /\ output[1].y + output[1].height <= input.naturalHeight

DocumentedAttempts ==
    <<[targetWidth |-> 2000, psm |-> 6],
      [targetWidth |-> 2200, psm |-> 6],
      [targetWidth |-> 2600, psm |-> 4]>>

\* C19: the general pass recognizes a canvas 2000 px wide on the first
\* attempt, 2200 px and 2600 px wide on the retries, with PSM 6 until the
\* final retry, which uses PSM 4; the widths of successive attempts increase.
C19_DocumentedAttempts ==
    /\ \A j \in tesseract.jobs :
          j.params.whitelist = "general"
              => /\ j.canvas.width = DocumentedAttempts[run[j.by].attemptIndex + 1].targetWidth
                 /\ j.params.psm = DocumentedAttempts[run[j.by].attemptIndex + 1].psm
    /\ \A i \in 1..(Len(attemptSettings) - 1) :
          attemptSettings[i].targetWidth < attemptSettings[i + 1].targetWidth

\* The cases of C20: the library cannot be loaded, a library call throws
\* during preprocessing, or no contour of the image qualifies as the card.
LibraryUnavailable == input.library \in {"noScript", "noRuntime"}
LibraryFails == ~LibraryUnavailable /\ input.throws # "none"
NoCardContour ==
    /\ ~LibraryUnavailable /\ input.throws = "none"
    /\ detectCardRegion(input.contours).points = "image"

\* The grid and white-run content localization of js/ocr.js.
ContentLocalization == {"computeAutoCropBoxCC", "computeAutoCropBoxSmart", "computeAutoCropBox"}

UrlsOf(imageInput) ==
    LET listed == {imageInput.variants[i].dataUrl : i \in DOMAIN imageInput.variants}
                      \ {Undefined, ""}
    IN  IF imageInput.string # Undefined THEN {imageInput.string}
        ELSE IF listed # {} THEN listed
        ELSE IF {imageInput.clean, imageInput.thresholded} # {Undefined}
        THEN {imageInput.clean, imageInput.thresholded} \ {Undefined}
        ELSE {imageInput.dataUrl} \ {Undefined}

\* C21: with Tesseract as the configured engine, a runOCREngine call that
\* returns has called Tesseract.recognize exactly once for every distinct
\* data URL of its input, with (dataUrl, 'eng', {logger}); for a plain string
\* that is one call and the variant type is 'original'.  The result is the
\* text and confidence of the variant of highest confidence, with engineUsed
\* 'tesseract', and the last value given to a progress callback is 100.
C21_TesseractOncePerVariant ==
    (input.preferred = "tesseract" /\ output.pc = "done")
        => /\ {output.recognized[i].dataUrl : i \in DOMAIN output.recognized}
                  = UrlsOf(input.imageInput)
           /\ \A i, j \in DOMAIN output.recognized :
                  output.recognized[i].dataUrl = output.recognized[j].dataUrl => i = j
           /\ \A i \in DOMAIN output.recognized :
                  output.recognized[i].lang = "eng" /\ output.recognized[i].logger
           /\ input.imageInput.string # Undefined
                  => /\ Len(output.recognized) = 1
                     /\ output.result.variantType = "original"
           /\ output.result.engineUsed = "tesseract"
           /\ output.result.text \in UrlsOf(input.imageInput)
           /\ output.result.confidence = input.confidence[output.result.text]
           /\ \A url \in UrlsOf(input.imageInput) :
                  input.confidence[url] <= output.result.confidence
           /\ input.callback => output.progress[Len(output.progress)] = 100

\* A call with a progress callback has returned the second of two variants,
\* the one Tesseract was more confident about.
C21_Witness ==
    /\ input.preferred = "tesseract" /\ output.pc = "done"
    /\ input.callback
    /\ Len(output.recognized) = 2
    /\ output.result.text = output.recognized[2].dataUrl
    /\ output.result.confidence > input.confidence[output.recognized[1].dataUrl]

\* No engine occurs twice among the engines tried for the current variant.
EachEngineOnce ==
    \A i, j \in DOMAIN output.attempted : output.attempted[i] = output.attempted[j] => i = j

\* The engine attempts a call in flight can still make: two for each
\* variant not yet recognized, less those made for the current one.
AttemptsLeft ==
    IF output.pc \in {"ppocr", "tesseract"}
    THEN 2 * (Len(output.variants) - output.index) - (Len(output.attempted) - 1)
            - (IF output.postLoop THEN 1 ELSE 0)
    ELSE 0

\* C29: once a PP-OCR attempt has failed, ocrConfig.currentEngine is the
\* fallback engine and no PP-OCR attempt is started, for any later variant
\* or image, until resetOcrEngine is called; every recognition tries each
\* engine at most once and every call that returns does so with engineUsed
\* 'tesseract'.  Every call terminates: while it is in flight the engine it
\* waits for can settle, and every engine that settles brings it closer to
\* its end.
C29_FallbackSticks ==
    /\ [](/\ output.failed => output.ocrConfig.currentEngine = FallbackEngine
          /\ ~output.retried
          /\ EachEngineOnce
          /\ output.pc = "done" => output.result.engineUsed = "tesseract"
          /\ output.pc \in {"ppocr", "tesseract"}
                => AttemptsLeft > 0 /\ ENABLED (PPOCRFails \/ TesseractSettles))
    /\ [][(output.pc \in {"ppocr", "tesseract"}
                /\ <<output.pc, output.index, output.attempted>>
                        # <<output.pc, output.index, output.attempted>>')
            => AttemptsLeft' < AttemptsLeft]_vars

\* A second call has returned after the first one's PP-OCR attempt failed:
\* the preference is still PP-OCR, the current engine is the fallback, and
\* the call made one recognition per variant.
C29_Witness ==
    /\ output.pc = "done" /\ output.calls = 2
    /\ output.failed
    /\ output.ocrConfig.engine = "ppocr"
    /\ output.ocrConfig.currentEngine = "tesseract"
    /\ Len(output.recognized) = 2
    /\ output.attempted = <<"tesseract">>

\* The positions of extractCardData after its attempt loop.
AfterLoop ==
    {"email_setParameters", "email_recognize", "phone_setParameters", "phone_recognize",
     "refine_setParameters", "refine_recognize", "done"}

\* C22: the general pass of a run is bounded.  Every general recognition a
\* run sets up is its first, or that of the next of the 3 attempt
\* configurations, or the rerun of the same configuration after loading a
\* language that the session had not loaded, of which there are at most 4.
\* The loop is left only with the canonical result and its canvas set, so
\* that the test of the fallback after the loop (!finalGeneral) fails.
C22_BoundedGeneralPass ==
    /\ [](/\ Len(state.loadedLanguages) <= 1 + Len(EXTRA_LANGUAGE_MAP)
          /\ \A i, j \in DOMAIN state.loadedLanguages :
                state.loadedLanguages[i] = state.loadedLanguages[j] => i = j
          /\ \A r \in Requests :
                /\ run[r].attemptIndex \in 0..(Len(attemptSettings) - 1)
                /\ run[r].pc \in AfterLoop
                      => /\ run[r].finalGeneral # NoResult
                         /\ run[r].finalPreprocess # NoPreprocess)
    /\ [][\A r \in Requests :
            (run[r].pc # "general_setParameters" /\ run'[r].pc = "general_setParameters")
                => \/ run[r].pc = "ensureWorker" /\ run'[r].attemptIndex = 0
                   \/ /\ run[r].pc = "general_recognize"
                      /\ run'[r].attemptIndex = run[r].attemptIndex + 1
                   \/ /\ run[r].pc = "initialize"
                      /\ run'[r].attemptIndex = run[r].attemptIndex
                      /\ Len(state'.loadedLanguages) = Len(state.loadedLanguages) + 1]_vars

\* A run has returned from its third configuration after two languages were
\* loaded in the session.
C22_Witness ==
    /\ run[1].pc = "done"
    /\ run[1].attemptIndex = 2
    /\ Len(state.loadedLanguages) = 3


\* The one recognition a targeted pass of call r has outstanding.
TargetedJob(r, params) ==
    [by |-> r, worker |-> state.worker, canvas |-> run[r].finalPreprocess.canvas,
     params |-> params, setBy |-> r]

TargetedPcs ==
    {"email_setParameters", "email_recognize", "phone_setParameters", "phone_recognize"}

\* C23: a run makes one email-targeted and then one phone-targeted
\* recognition, both with page segmentation mode 11 and both on the canvas of
\* the canonical attempt, after the general pass has fixed its result and
\* before any field is refined.  The email pass is entered only from the
\* attempt loop, the phone pass only from the email pass, refinement and the
\* return only from the phone pass on, and nothing leads back; the canonical
\* result and canvas do not change once the loop is left.
C23_TargetedPassesOnce ==
    /\ [](\A r \in Requests :
            /\ run[r].pc \in TargetedPcs
                  => /\ run[r].finalGeneral # NoResult
                     /\ run[r].refining = Null
                     /\ \A f \in {"name", "email", "phone"} : run[r].refinedWith[f] = NoResult
                     /\ run[r].finalPreprocess =
                            preprocessImage(attemptSettings[run[r].attemptIndex + 1].targetWidth)
            /\ run[r].pc = "email_recognize"
                  => {j \in tesseract.jobs : j.by = r} = {TargetedJob(r, EmailParams)}
            /\ run[r].pc = "phone_recognize"
                  => {j \in tesseract.jobs : j.by = r} = {TargetedJob(r, PhoneParams)}
            /\ EmailParams.psm = 11 /\ PhoneParams.psm = 11)
    /\ [][\A r \in Requests :
            run'[r].pc # run[r].pc =>
                /\ run'[r].pc = "email_setParameters" => run[r].pc = "general_recognize"
                /\ run[r].pc = "email_setParameters" => run'[r].pc = "email_recognize"
                /\ run[r].pc = "email_recognize" => run'[r].pc = "phone_setParameters"
                /\ run'[r].pc = "phone_setParameters" => run[r].pc = "email_recognize"
                /\ run[r].pc = "phone_setParameters" => run'[r].pc = "phone_recognize"
                /\ run'[r].pc = "phone_recognize" => run[r].pc = "phone_setParameters"
                /\ run[r].pc = "phone_recognize"
                      => run'[r].pc \in {"refine_setParameters", "done"}
                /\ run'[r].pc \in {"refine_setParameters", "done"}
                      => run[r].pc \in {"phone_recognize", "refine_recognize"}
                /\ run[r].pc \in AfterLoop \ {"done"}
                      => /\ run'[r].pc \in AfterLoop
                         /\ run'[r].finalGeneral = run[r].finalGeneral
                         /\ run'[r].finalPreprocess = run[r].finalPreprocess]_vars

\* The phone pass of a run reads the canvas of the third configuration, after
\* a language was loaded.
C23_Witness ==
    /\ run[1].pc = "phone_recognize"
    /\ run[1].attemptIndex = 2
    /\ Len(state.loadedLanguages) >= 2
    /\ TargetedJob(1, PhoneParams) \in tesseract.jobs
    /\ TargetedJob(1, PhoneParams).canvas.width = attemptSettings[3].targetWidth
    /\ attemptSettings[3].targetWidth # attemptSettings[1].targetWidth


\* Entry i of a history is that of the i-th attempt configuration.
NumberedInOrder(attemptHistory) ==
    \A i \in DOMAIN attemptHistory :
        /\ attemptHistory[i].attempt = i
        /\ attemptHistory[i].targetWidth = attemptSettings[i].targetWidth
        /\ attemptHistory[i].psm = attemptSettings[i].psm

\* The first n entries of a history are failed attempts with a blocking warning.
FailedWithWarning(attemptHistory, n) ==
    \A i \in 1..n :
        /\ ~attemptHistory[i].success
        /\ attemptHistory[i].warnings # <<>>
        /\ \A k \in DOMAIN attemptHistory[i].warnings :
                REQUIRED_WARNINGS(attemptHistory[i].warnings[k])

\* C24: attemptHistory has one entry per attempt configuration tried, in
\* order and numbered from 1; a language rerun adds none.  Inside the loop
\* the entries are those of the configurations given up, each with
\* success = false and at least one blocking warning; from the end of the
\* loop to the return there is one more, the last, with success = true and
\* the width and mode of the canonical attempt.
C24_AttemptHistory ==
    \A r \in Requests :
        LET l == run[r]
            n == Len(l.attemptHistory)
        IN  /\ NumberedInOrder(l.attemptHistory)
            /\ l.pc \in {"general_setParameters", "general_recognize", "loadLanguage",
                         "initialize"}
                  => /\ n = l.attemptIndex
                     /\ FailedWithWarning(l.attemptHistory, n)
            /\ l.pc \in AfterLoop
                  => /\ n = l.attemptIndex + 1
                     /\ FailedWithWarning(l.attemptHistory, n - 1)
                     /\ l.attemptHistory[n].success
                     /\ l.attemptHistory[n].targetWidth = l.finalPreprocess.canvas.width
                     /\ l.attemptHistory[n].psm = l.generalPSMUsed

\* A run has returned a history of three entries, the languages of the last
\* differing from those of the first: a language was loaded on the way.
C24_Witness ==
    /\ run[1].pc = "done"
    /\ Len(run[1].attemptHistory) = 3
    /\ run[1].attemptHistory[1].extraLanguage # run[1].attemptHistory[3].extraLanguage


\* The languages of a list, as a set.
LanguageSet(languages) == {languages[i] : i \in DOMAIN languages}

\* C26: once an auxiliary language has been loaded and recorded, the
\* languages the engine was last initialized with are those of
\* state.loadedLanguages, whatever languages were detected before; the list
\* starts with 'eng' and holds no language twice.
C26_EngineLanguagesAsRecorded ==
    /\ (state.worker # 0 /\ \A r \in Requests : run[r].pc # "initialize")
          => LanguageSet(tesseract.langs) = LanguageSet(state.loadedLanguages)
    /\ state.loadedLanguages[1] = "eng"
    /\ \A i, j \in DOMAIN state.loadedLanguages :
          state.loadedLanguages[i] = state.loadedLanguages[j] => i = j


\* The digits of a value.
DigitCount(value) == Len(SelectSeq(value, LAMBDA ch : ch \in Digit))

\* An optional leading '+' followed by digits only.
PlusThenDigits(value) ==
    /\ value # <<>>
    /\ \A i \in DOMAIN value : value[i] \in Digit \/ (i = 1 /\ value[i] = "+")

\* C30: a value extractPhone returns other than null is an optional leading
\* '+' followed only by digits, and has at least 7 digits.
C30_PhoneValueShape ==
    \A i \in DOMAIN output :
        output[i].value # NullText
            => /\ PlusThenDigits(output[i].value)
               /\ DigitCount(output[i].value) >= 7


RECURSIVE SumOver(_, _, _)
\* The sum of gray (of its squares when squared) over a set of pixels.
SumOver(gray, pixels, squared) ==
    IF pixels = {} THEN 0
    ELSE LET i == CHOOSE p \in pixels : TRUE
         IN  (IF squared THEN gray[i] * gray[i] ELSE gray[i])
                + SumOver(gray, pixels \ {i}, squared)

\* The pixels of rows y0..y1 and columns x0..x1, both ends included.
WindowPixels(width, win) ==
    {y * width + x : x \in (win.x0)..(win.x1), y \in (win.y0)..(win.y1)}

\* C25: for every pixel the window sum and sum of squares taken from the
\* summed-area tables are the sums of gray and of its squares over the
\* clamped window, rows y0..y1 and columns x0..x1 inclusive, the area is the
\* number of those pixels, and so the mean is sum / area over the window.
C25_WindowSums ==
    \A k \in DOMAIN output :
        \A i \in DOMAIN output[k] :
            LET win == WindowOf(input.width, input.height, input.window,
                                i % input.width, i \div input.width)
                pixels == WindowPixels(input.width, win)
            IN  /\ output[k][i].area = Cardinality(pixels)
                /\ output[k][i].sum = SumOver(input.gray, pixels, FALSE)
                /\ output[k][i].sumSq = SumOver(input.gray, pixels, TRUE)


C28_ButtonDisabledInFlight ==
    /\ output.inFlight > 0 => output.disabled
    /\ output.inFlight <= 1

====
